---- MODULE Spec2Model ----
(***************************************************************************)
(* Model of the self-correcting code-generation agent of                   *)
(* experiments_various/experiment2: the generate -> test -> classify ->    *)
(* repair loop of the orchestrator variants (qwen3-coder, phi4, gpt-oss),  *)
(* the sandbox (ProjectManager) they run in and the failure classifiers.   *)
(***************************************************************************)
EXTENDS Integers, Sequences, FiniteSets, TLC

VARIABLES
    variant,                  \* which orchestrator file is running
    mode,                     \* 'generate' | 'refactor' | 'debug'
    initial_code,             \* "None" or "seed"
    test_plan,                \* "None" or a plan
    MAX_DEBUG_ATTEMPTS,       \* module-level configuration, fixed during a run
    MAX_TEST_REGEN_ATTEMPTS,
    pc,                       \* position of the run
    exc,                      \* exception in flight
    dir_exists,               \* os.path.exists(base_dir)
    current_dir,              \* ProjectManager.current_dir
    files,                    \* contents of the sandbox directory
    out_files,                \* contents of OUTPUT_DIR
    generated_code,
    generated_tests,
    attempt,                  \* loop index of the for loop
    test_passed,
    test_output,
    analysis_result,
    gen_mode,                 \* which user message generate_code built
    result,                   \* what the run reported
    count,                    \* how often each operation was called in the run
    exit_statuses,            \* exit status of every test execution, in order
    classifications,          \* result of every failure classification, in order
    service_failed,           \* a request to the generation service has failed
    solutions, failures,      \* ConversationManager records (gpt-oss variant)
    cls_impl, cls_response, cls_result,  \* a direct call of a classifier
    pm_trace, pm_ret,         \* direct calls of a ProjectManager: names, last outcome
    runs, disk,               \* concurrent runs and the directories they work in
    twin,                     \* two runs fed the same responses, step by step
    code_solutions, code_failures,    \* tables of the ConversationManager database
    db_clock, db_read,        \* datetime.now() and the value of the last read
    chat_history, attached_files,     \* state of a chat front end
    request, sent,            \* its request in flight, the message lists it sent
    tested,                   \* the code the last tests were generated from / run against
    messages_table,           \* committed rows of the SQLite table `messages`
    vector_store,             \* entries of the Chroma vector store
    turn                      \* an add_turn_to_history call and its open transaction

cfgVars == <<variant, mode, initial_code, MAX_DEBUG_ATTEMPTS, MAX_TEST_REGEN_ATTEMPTS>>
fsVars == <<dir_exists, current_dir, files, out_files>>
loopVars == <<generated_code, generated_tests, attempt, test_passed, test_output,
              analysis_result, gen_mode>>
histVars == <<exit_statuses, classifications, service_failed>>
convVars == <<solutions, failures>>
clsVars == <<cls_impl, cls_response, cls_result>>
pmVars == <<pm_trace, pm_ret>>
concVars == <<runs, disk>>
twinVars == <<twin>>
dbVars == <<code_solutions, code_failures, db_clock, db_read>>
chatVars == <<chat_history, attached_files, request, sent>>
testedVars == <<tested>>
turnVars == <<messages_table, vector_store, turn>>
sideVars == <<twinVars, dbVars, chatVars, testedVars, turnVars>>
vars == <<cfgVars, test_plan, pc, exc, fsVars, loopVars, result, count, histVars,
          convVars, clsVars, pmVars, concVars, sideVars>>

----------------------------------------------------------------------------
(* Bounds of the model *)

\* the retry limits are the configured pair or any pair of limits up to MaxLimit
MaxLimit == 2
\* longest run of whitespace put before and after a service reply
MaxPad == 1

----------------------------------------------------------------------------
(* Strings, as sequences of characters *)

LABEL_code_bug == <<"c", "o", "d", "e", "_", "b", "u", "g">>
LABEL_test_bug == <<"t", "e", "s", "t", "_", "b", "u", "g">>
LABEL_cannot_determine == <<"c", "a", "n", "n", "o", "t", "_", "d", "e", "t", "e", "r", "m", "i", "n", "e">>
NEEDLE_code == <<"c", "o", "d", "e">>
TEXT_empty == << >>
TEXT_upper_code_bug == <<"C", "o", "d", "e", "_", "B", "u", "g">>
TEXT_upper_test_bug == <<"T", "E", "S", "T", "_", "B", "U", "G">>
TEXT_code_bug_dot == <<"c", "o", "d", "e", "_", "b", "u", "g", ".">>
TEXT_sentence == <<"t", "h", "e", " ", "c", "o", "d", "e", " ", "i", "s", " ", "w", "r", "o", "n", "g">>
TEXT_unknown == <<"u", "n", "k", "n", "o", "w", "n">>
TEXT_test == <<"t", "e", "s", "t">>
\* the text call_ollama_api returns when the request fails
TEXT_api_error == <<"E", "r", "r", "o", "r", ":", " ", "F", "a", "i", "l", "e", "d", " ", "t", "o", " ", "c", "o", "n", "n", "e", "c", "t">>

Whitespace == {" ", "\n"}

\* str.lower() on one character
LowerChar(c) ==
    CASE c = "B" -> "b" [] c = "C" -> "c" [] c = "E" -> "e" [] c = "F" -> "f"
      [] c = "G" -> "g" [] c = "S" -> "s" [] c = "T" -> "t" [] c = "U" -> "u"
      [] OTHER -> c

\* str.lower()
Lower(s) == [i \in DOMAIN s |-> LowerChar(s[i])]

\* str.strip(): drop leading and trailing whitespace
Strip(s) ==
    LET keep == {i \in DOMAIN s : s[i] \notin Whitespace}
    IN  IF keep = {} THEN << >>
        ELSE LET lo == CHOOSE i \in keep : \A j \in keep : i <= j
                 hi == CHOOSE i \in keep : \A j \in keep : j <= i
             IN  SubSeq(s, lo, hi)

\* Python's `sub in s` on strings
Contains(sub, s) ==
    \E i \in 0..(Len(s) - Len(sub)) : SubSeq(s, i + 1, i + Len(sub)) = sub

\* every string of at most n whitespace characters
RECURSIVE Pads(_)
Pads(n) ==
    IF n = 0 THEN {<< >>}
    ELSE Pads(n - 1) \cup {p \o <<w>> : p \in {q \in Pads(n - 1) : Len(q) = n - 1}, w \in Whitespace}

BaseReplies ==
    {LABEL_code_bug, LABEL_test_bug, LABEL_cannot_determine, TEXT_empty,
     TEXT_upper_code_bug, TEXT_upper_test_bug, TEXT_code_bug_dot, TEXT_sentence,
     TEXT_unknown, TEXT_test, TEXT_api_error}

\* what the analyzer model may send back, with and without padding
Responses == {l \o b \o r : l \in Pads(MaxPad), b \in BaseReplies, r \in Pads(MaxPad)}

----------------------------------------------------------------------------
(* Failure classifiers *)

\* call_ollama_api returns the message content stripped
call_ollama_api_text(raw) == Strip(raw)

\* qwen3-coder:latest.py
analyze_test_failure(response) ==
    LET analysis == Lower(Strip(call_ollama_api_text(response)))
    IN  IF analysis \notin {LABEL_code_bug, LABEL_test_bug} THEN LABEL_cannot_determine
        ELSE analysis

\* phi4-reasoning:14b-plus-q8_0.py
CodingAgentV2_analyze_test_failure(response) ==
    LET analysis == Lower(Strip(call_ollama_api_text(response)))
    IN  IF analysis \in {LABEL_code_bug, LABEL_test_bug} THEN analysis
        ELSE LABEL_cannot_determine

\* qwen3:30b-a3b.py
qwen3_30b_analyze_test_failure(response) ==
    LET res == Lower(Strip(call_ollama_api_text(response)))
    IN  IF Contains(NEEDLE_code, res) THEN LABEL_code_bug ELSE LABEL_test_bug

----------------------------------------------------------------------------
(* Values *)

\* MAX_DEBUG_ATTEMPTS = 3 and MAX_TEST_REGEN_ATTEMPTS = 2 as the files set them
CONFIGURED_DEBUG_ATTEMPTS == 3
CONFIGURED_TEST_REGEN_ATTEMPTS == 2

\* the limits a run may be started with
LimitPairs ==
    {<<CONFIGURED_DEBUG_ATTEMPTS, CONFIGURED_TEST_REGEN_ATTEMPTS>>}
        \cup ((1..MaxLimit) \X (1..MaxLimit))

Variants == {"qwen3coder", "phi4", "gptoss"}
Modes == {"generate", "refactor", "debug"}
FileNames == {"code_file", "test_file", "stale_file"}

NoFile == [kind |-> "absent", id |-> 0]
Unset == [kind |-> "unset", id |-> 0]
Stale == [kind |-> "stale", id |-> 0]
Text(n) == [kind |-> "text", id |-> n]
ErrorText == [kind |-> "error", id |-> 0]

EmptyDir == [f \in FileNames |-> NoFile]
StaleDir == [f \in FileNames |-> IF f = "test_file" THEN NoFile ELSE Stale]

NoResult == [status |-> "none", message |-> "none",
             code |-> Unset, tests |-> Unset, output |-> Unset]

\* outcome of a direct ProjectManager call: "ok" or the exception raised
NoReturn == [status |-> "none", value |-> Unset]

\* no twin runs, no database, no front end
TwinIdle == twin = << >>

DbIdle ==
    /\ code_solutions = << >>
    /\ code_failures = << >>
    /\ db_clock = 0
    /\ db_read = << >>

ChatIdle ==
    /\ chat_history = << >>
    /\ attached_files = {}
    /\ request = << >>
    /\ sent = << >>

\* no test generation and no test execution yet
TestedIdle == tested = [tests_from |-> Unset, executed |-> NoFile, repaired |-> Unset]

\* no turn stored and no add_turn_to_history call in progress
NoCall == [pc |-> "idle", n |-> 0, conversation_id |-> 0, pending |-> << >>,
           user_message_id |-> 0, assistant_message_id |-> 0]

TurnIdle ==
    /\ messages_table = << >>
    /\ vector_store = {}
    /\ turn = NoCall

SideIdle == TwinIdle /\ DbIdle /\ ChatIdle /\ TestedIdle /\ TurnIdle

ZeroCount == [create |-> 0, gen_code |-> 0, gen_plan |-> 0, gen_tests |-> 0, exec |-> 0,
              analyze |-> 0, debug |-> 0, regen |-> 0, calls |-> 0]

Bump(c, field) == [c EXCEPT ![field] = @ + 1]
\* one more request to the generation service, made by operation `field`
BumpCall(c, field) == [c EXCEPT ![field] = @ + 1, !.calls = @ + 1]

----------------------------------------------------------------------------
(* ProjectManager *)

\* a create_project that makes the directory without removing an existing one
create_project_keeps ==
    /\ dir_exists' = TRUE
    /\ files' = files
    /\ current_dir' = "base_dir"

create_project ==
    /\ dir_exists' = TRUE
    /\ files' = EmptyDir            \* an existing directory is removed first
    /\ current_dir' = "base_dir"

\* a guard that looks for the directory instead of the handle
NotInitialised_by_path == ~dir_exists

\* `if not self.current_dir: raise RuntimeError(...)`
NotInitialised == current_dir = "None"

\* a write that ignores the name it is given
write_file_one_name(file_name, content) ==
    /\ ~NotInitialised
    /\ files' = [files EXCEPT !["code_file"] = content]
    /\ UNCHANGED <<dir_exists, current_dir>>

\* a write that keeps a file that is already there
write_file_keeps(file_name, content) ==
    /\ ~NotInitialised
    /\ files' = IF files[file_name] = NoFile
                THEN [files EXCEPT ![file_name] = content] ELSE files
    /\ UNCHANGED <<dir_exists, current_dir>>

\* with open(path, 'w') as f: f.write(content)
write_file(file_name, content) ==
    /\ ~NotInitialised
    /\ files' = [files EXCEPT ![file_name] = content]
    /\ UNCHANGED <<dir_exists, current_dir>>

\* a cleanup that removes the directory and keeps the handle
cleanup_keeps_handle ==
    IF dir_exists
    THEN /\ dir_exists' = FALSE
         /\ files' = EmptyDir
         /\ current_dir' = current_dir
    ELSE UNCHANGED <<dir_exists, current_dir, files>>

\* a cleanup that trusts current_dir and finds nothing to remove
cleanup_forgets ==
    UNCHANGED <<dir_exists, current_dir, files>>

\* a cleanup that removes the directory only when the handle is set
cleanup_by_handle ==
    IF current_dir # "None"
    THEN /\ dir_exists' = FALSE
         /\ files' = EmptyDir
         /\ current_dir' = "None"
    ELSE UNCHANGED <<dir_exists, current_dir, files>>

cleanup ==
    IF dir_exists
    THEN /\ dir_exists' = FALSE
         /\ files' = EmptyDir
         /\ current_dir' = "None"
    ELSE UNCHANGED <<dir_exists, current_dir, files>>

\* how subprocess.run(command, ..., timeout=timeout) can end
SubprocessOutcomes == {"exit_0", "exit_1", "TimeoutExpired", "OSError"}

\* a run_command without the clause that catches subprocess.TimeoutExpired
run_command_timeout_escapes(raw) ==
    CASE raw = "exit_0" -> [out |-> "report", err |-> "", rc |-> 0, raised |-> "none"]
      [] raw = "exit_1" -> [out |-> "report", err |-> "", rc |-> 1, raised |-> "none"]
      [] raw = "TimeoutExpired" ->
             [out |-> "", err |-> "", rc |-> 1, raised |-> "TimeoutExpired"]
      [] OTHER -> [out |-> "", err |-> "Error: Failed to execute command.", rc |-> 1,
                   raised |-> "none"]

\* run_command in an initialised project: what it hands back to its caller as
\* (stdout, stderr, returncode), and the exception that leaves it, if any.
\* gpt-oss has one `except Exception` clause for both failures.
run_command(raw) ==
    CASE raw = "exit_0" -> [out |-> "report", err |-> "", rc |-> 0, raised |-> "none"]
      [] raw = "exit_1" -> [out |-> "report", err |-> "", rc |-> 1, raised |-> "none"]
      [] raw = "TimeoutExpired" ->
             [out |-> "",
              err |-> IF variant = "gptoss" THEN "Command error: timed out"
                      ELSE "Error: Command timed out.",
              rc |-> 1, raised |-> "none"]
      [] OTHER -> [out |-> "",
                   err |-> IF variant = "gptoss" THEN "Command error: failed"
                           ELSE "Error: Failed to execute command.",
                   rc |-> 1, raised |-> "none"]

RunOutcomes == {run_command(raw) : raw \in SubprocessOutcomes}

----------------------------------------------------------------------------
(* Generation adapter *)

\* how a request to the generation service can end
ServiceOutcomes ==
    {"ok", "unavailable", "interrupt"}
        \cup (IF variant = "gptoss" THEN {} ELSE {"raise"})

\* the text a generation helper gets back: the reply, or the error text that
\* call_ollama_api returns from its except clause
call_ollama_api(outcome, n) ==
    IF outcome = "unavailable" THEN ErrorText ELSE Text(n)

NoteOutcome(outcome) ==
    service_failed' = (service_failed \/ outcome = "unavailable")

\* the user message _generate_code builds
PromptKind ==
    IF variant = "qwen3coder" THEN "generate"
    ELSE IF initial_code # "None" /\ mode \in {"refactor", "debug"} THEN mode
    ELSE "generate"

\* leave the try block with an exception
Raise(kind) ==
    /\ exc' = kind
    /\ pc' = IF kind = "KeyboardInterrupt" THEN "finally" ELSE "except"

----------------------------------------------------------------------------
(* Orchestrator: generate_code_and_tests / execute_coding_agent_v2 / run *)

\* gpt-oss:latest.py
gptoss_analyze_test_failure(response) ==
    LET ans == Lower(Strip(call_ollama_api_text(response)))
    IN  IF ans \in {LABEL_code_bug, LABEL_test_bug} THEN ans ELSE LABEL_cannot_determine

\* the classifier the running variant calls
Classify(response) ==
    CASE variant = "qwen3coder" -> analyze_test_failure(response)
      [] variant = "phi4" -> CodingAgentV2_analyze_test_failure(response)
      [] OTHER -> gptoss_analyze_test_failure(response)

\* a range that covers the repairs only
LoopRange_debug_only == MAX_DEBUG_ATTEMPTS

\* a range that leaves out one iteration per limit
LoopRange_short == MAX_DEBUG_ATTEMPTS + MAX_TEST_REGEN_ATTEMPTS - 2

\* range(MAX_DEBUG_ATTEMPTS + MAX_TEST_REGEN_ATTEMPTS)
LoopRange == MAX_DEBUG_ATTEMPTS + MAX_TEST_REGEN_ATTEMPTS

\* a loop whose index never advances
NextIndex_stuck(i) == i

\* the for loop's next index
NextIndex(i) == i + 1

\* a passing run that does not leave the loop
PassTarget_no_break == "loop"

\* where `break` after a passing run leads
PassTarget == IF variant = "gptoss" THEN "save_success" ELSE "copy"

\* limits replaced by the length of the range
Decide_range_limit(analysis, att) ==
    IF analysis = LABEL_code_bug /\ att < MAX_DEBUG_ATTEMPTS + MAX_TEST_REGEN_ATTEMPTS
    THEN "repair"
    ELSE IF analysis = LABEL_test_bug
            /\ att < MAX_DEBUG_ATTEMPTS + MAX_TEST_REGEN_ATTEMPTS THEN "regenerate"
    ELSE "stop"

\* every failure within the repair budget is answered by a repair
Decide_always_repairs(analysis, att) ==
    IF att < MAX_DEBUG_ATTEMPTS THEN "repair" ELSE "stop"

\* limits compared with <= instead of <
Decide_off_by_one(analysis, att) ==
    IF analysis = LABEL_code_bug /\ att <= MAX_DEBUG_ATTEMPTS THEN "repair"
    ELSE IF analysis = LABEL_test_bug /\ att <= MAX_TEST_REGEN_ATTEMPTS THEN "regenerate"
    ELSE "stop"

\* an inconclusive classification treated as the default assumption, a code bug
Decide_guesses(analysis, att) ==
    IF analysis # LABEL_test_bug /\ att < MAX_DEBUG_ATTEMPTS THEN "repair"
    ELSE IF analysis = LABEL_test_bug /\ att < MAX_TEST_REGEN_ATTEMPTS THEN "regenerate"
    ELSE "stop"

\* the if / elif / else after the classification
Decide(analysis, att) ==
    IF analysis = LABEL_code_bug /\ att < MAX_DEBUG_ATTEMPTS THEN "repair"
    ELSE IF analysis = LABEL_test_bug /\ att < MAX_TEST_REGEN_ATTEMPTS THEN "regenerate"
    ELSE "stop"

\* the message of a run that did not pass
FailureMessage(analysis) ==
    IF variant = "gptoss"
    THEN CASE analysis = LABEL_code_bug -> "Analysis: code_bug"
           [] analysis = LABEL_test_bug -> "Analysis: test_bug"
           [] OTHER -> "Analysis: cannot_determine"
    ELSE IF analysis = LABEL_code_bug THEN "unable_to_fix_code_bug"
    ELSE "flaw_in_generated_tests"

Init ==
    /\ variant \in Variants
    /\ mode \in (IF variant = "qwen3coder" THEN {"generate"} ELSE Modes)
    /\ initial_code \in (IF variant = "qwen3coder" THEN {"None"} ELSE {"None", "seed"})
    /\ test_plan \in (IF variant = "qwen3coder" THEN {"None", "plan"} ELSE {"plan"})
    /\ \E limits \in LimitPairs :
         /\ MAX_DEBUG_ATTEMPTS = limits[1]
         /\ MAX_TEST_REGEN_ATTEMPTS = limits[2]
    /\ pc = "start"
    /\ exc = "none"
    /\ dir_exists \in BOOLEAN       \* a crashed earlier run may have left it
    /\ files = IF dir_exists THEN StaleDir ELSE EmptyDir
    /\ current_dir = "None"
    /\ out_files = [f \in {"code_file", "test_file"} |-> NoFile]
    /\ generated_code = Unset
    /\ generated_tests = Unset
    /\ attempt = -1
    /\ test_passed = FALSE
    /\ test_output = Unset
    /\ analysis_result = LABEL_code_bug
    /\ gen_mode = "none"
    /\ result = NoResult
    /\ count = ZeroCount
    /\ exit_statuses = << >>
    /\ classifications = << >>
    /\ service_failed = FALSE
    /\ solutions = 0
    /\ failures = 0
    /\ cls_impl = "none"
    /\ cls_response = << >>
    /\ cls_result = << >>
    /\ pm_trace = << >>
    /\ pm_ret = NoReturn
    /\ runs = << >>
    /\ disk = << >>
    /\ SideIdle

\* try: project_manager.create_project()
CreateProject ==
    /\ pc = "start"
    /\ create_project
    /\ count' = Bump(count, "create")
    /\ pc' = "gen_code"
    /\ UNCHANGED <<cfgVars, test_plan, exc, out_files, loopVars, result, histVars,
                   convVars, clsVars, pmVars, concVars, sideVars>>

\* generated_code = generate_code(language, prompt[, initial_code, mode])
GenerateCode ==
    /\ pc = "gen_code"
    /\ \E o \in ServiceOutcomes :
         /\ count' = BumpCall(count, "gen_code")
         /\ NoteOutcome(o)
         /\ gen_mode' = PromptKind
         /\ IF o \in {"ok", "unavailable"}
            THEN /\ generated_code' = call_ollama_api(o, count'.calls)
                 /\ pc' = "write_code"
                 /\ exc' = exc
            ELSE /\ Raise(IF o = "interrupt" THEN "KeyboardInterrupt" ELSE "Exception")
                 /\ UNCHANGED generated_code
    /\ UNCHANGED <<cfgVars, test_plan, fsVars, generated_tests, attempt, test_passed,
                   test_output, analysis_result, result, exit_statuses, classifications,
                   convVars, clsVars, pmVars, concVars, sideVars>>

\* project_manager.write_file(code_file, generated_code), first time
WriteCode ==
    /\ pc = "write_code"
    /\ \E o \in {"ok", "raise"} :
         IF o = "ok"
         THEN /\ write_file("code_file", generated_code)
              /\ pc' = IF variant = "qwen3coder" /\ test_plan = "None"
                       THEN "gen_plan" ELSE "loop"
              /\ exc' = exc
         ELSE /\ Raise("Exception")
              /\ UNCHANGED <<dir_exists, current_dir, files>>
    /\ UNCHANGED <<cfgVars, test_plan, out_files, loopVars, result, count, histVars,
                   convVars, clsVars, pmVars, concVars, sideVars>>

\* if not test_plan: test_plan = generate_test_plan(language, prompt)
GenerateTestPlan ==
    /\ pc = "gen_plan"
    /\ \E o \in ServiceOutcomes :
         /\ count' = BumpCall(count, "gen_plan")
         /\ NoteOutcome(o)
         /\ IF o \in {"ok", "unavailable"}
            THEN /\ test_plan' = IF o = "ok" THEN "plan" ELSE "error"
                 /\ pc' = "loop"
                 /\ exc' = exc
            ELSE /\ Raise(IF o = "interrupt" THEN "KeyboardInterrupt" ELSE "Exception")
                 /\ UNCHANGED test_plan
    /\ UNCHANGED <<cfgVars, fsVars, loopVars, result, exit_statuses, classifications,
                   convVars, clsVars, pmVars, concVars, sideVars>>

\* for attempt in range(MAX_DEBUG_ATTEMPTS + MAX_TEST_REGEN_ATTEMPTS)
LoopHead ==
    /\ pc = "loop"
    /\ IF NextIndex(attempt) < LoopRange
       THEN /\ attempt' = NextIndex(attempt)
            /\ pc' = "gen_tests"
       ELSE /\ attempt' = attempt
            /\ pc' = "copy"
    /\ UNCHANGED <<cfgVars, test_plan, exc, fsVars, generated_code, generated_tests,
                   test_passed, test_output, analysis_result, gen_mode, result, count,
                   histVars, convVars, clsVars, pmVars, concVars, sideVars>>

\* generated_tests = generate_unit_tests(code_file, generated_code, test_plan)
GenerateTests ==
    /\ pc = "gen_tests"
    /\ \E o \in ServiceOutcomes :
         /\ count' = BumpCall(count, "gen_tests")
         /\ NoteOutcome(o)
         /\ IF o \in {"ok", "unavailable"}
            THEN /\ generated_tests' = call_ollama_api(o, count'.calls)
                 /\ tested' = [tested EXCEPT !.tests_from = generated_code]
                 /\ pc' = "write_tests"
                 /\ exc' = exc
            ELSE /\ Raise(IF o = "interrupt" THEN "KeyboardInterrupt" ELSE "Exception")
                 /\ UNCHANGED <<generated_tests, tested>>
    /\ UNCHANGED <<cfgVars, test_plan, fsVars, generated_code, attempt, test_passed,
                   test_output, analysis_result, gen_mode, result, exit_statuses,
                   classifications, convVars, clsVars, pmVars, concVars, twinVars,
                   dbVars, chatVars, turnVars>>

\* project_manager.write_file(test_file, generated_tests)
WriteTests ==
    /\ pc = "write_tests"
    /\ \E o \in {"ok", "raise"} :
         IF o = "ok"
         THEN /\ write_file("test_file", generated_tests)
              /\ pc' = "run_tests"
              /\ exc' = exc
         ELSE /\ Raise("Exception")
              /\ UNCHANGED <<dir_exists, current_dir, files>>
    /\ UNCHANGED <<cfgVars, test_plan, out_files, loopVars, result, count, histVars,
                   convVars, clsVars, pmVars, concVars, sideVars>>

\* stdout, stderr, returncode = project_manager.run_command([... pytest ...])
\* and the `if returncode == 0` that follows
RunTests ==
    /\ pc = "run_tests"
    /\ count' = Bump(count, "exec")
    /\ \/ \E o \in RunOutcomes :
            IF o.raised # "none"
            THEN /\ Raise("Exception")
                 /\ UNCHANGED <<exit_statuses, test_output, test_passed, tested>>
            ELSE /\ exit_statuses' = Append(exit_statuses, o.rc)
                 /\ tested' = [tested EXCEPT !.executed = files["code_file"]]
                 /\ exc' = exc
                 /\ IF o.rc = 0
                    THEN /\ test_output' = [out |-> o.out, err |-> ""]
                         /\ test_passed' = TRUE
                         /\ pc' = PassTarget
                    ELSE /\ test_output' = [out |-> o.out, err |-> o.err]
                         /\ test_passed' = test_passed
                         /\ pc' = "analyze"
       \/ /\ Raise("KeyboardInterrupt")
          /\ UNCHANGED <<exit_statuses, test_output, test_passed, tested>>
    /\ UNCHANGED <<cfgVars, test_plan, fsVars, generated_code, generated_tests, attempt,
                   analysis_result, gen_mode, result, classifications, service_failed,
                   convVars, clsVars, pmVars, concVars, twinVars, dbVars, chatVars,
                   turnVars>>

\* analysis_result = analyze_test_failure(generated_code, test_output)
AnalyzeFailure ==
    /\ pc = "analyze"
    /\ \E o \in ServiceOutcomes, response \in BaseReplies :
         /\ count' = BumpCall(count, "analyze")
         /\ NoteOutcome(o)
         /\ IF o \in {"ok", "unavailable"}
            THEN /\ analysis_result' =
                        Classify(IF o = "ok" THEN response ELSE TEXT_api_error)
                 /\ classifications' = Append(classifications, analysis_result')
                 /\ pc' = "branch"
                 /\ exc' = exc
            ELSE /\ Raise(IF o = "interrupt" THEN "KeyboardInterrupt" ELSE "Exception")
                 /\ UNCHANGED <<analysis_result, classifications>>
    /\ UNCHANGED <<cfgVars, test_plan, fsVars, generated_code, generated_tests, attempt,
                   test_passed, test_output, gen_mode, result, exit_statuses, convVars,
                   clsVars, pmVars, concVars, sideVars>>

\* if analysis_result == 'code_bug' and attempt < MAX_DEBUG_ATTEMPTS: ...
\* elif analysis_result == 'test_bug' and attempt < MAX_TEST_REGEN_ATTEMPTS: ...
\* else: break
Branch ==
    /\ pc = "branch"
    /\ LET d == Decide(analysis_result, attempt)
       IN  /\ pc' = CASE d = "repair" -> "debug"
                      [] d = "regenerate" -> "loop"
                      [] OTHER -> "copy"
           /\ count' = IF d = "regenerate" THEN Bump(count, "regen") ELSE count
    /\ UNCHANGED <<cfgVars, test_plan, exc, fsVars, loopVars, result, histVars, convVars,
                   clsVars, pmVars, concVars, sideVars>>

\* generated_code = debug_code(generated_code, test_output, test_file)
DebugCode ==
    /\ pc = "debug"
    /\ \E o \in ServiceOutcomes :
         /\ count' = BumpCall(count, "debug")
         /\ NoteOutcome(o)
         /\ IF o \in {"ok", "unavailable"}
            THEN /\ generated_code' = call_ollama_api(o, count'.calls)
                 /\ tested' = [tested EXCEPT !.repaired = call_ollama_api(o, count'.calls)]
                 /\ pc' = "write_fix"
                 /\ exc' = exc
            ELSE /\ Raise(IF o = "interrupt" THEN "KeyboardInterrupt" ELSE "Exception")
                 /\ UNCHANGED <<generated_code, tested>>
    /\ UNCHANGED <<cfgVars, test_plan, fsVars, generated_tests, attempt, test_passed,
                   test_output, analysis_result, gen_mode, result, exit_statuses,
                   classifications, convVars, clsVars, pmVars, concVars, twinVars,
                   dbVars, chatVars, turnVars>>

\* project_manager.write_file(code_file, generated_code), after a repair
WriteFix ==
    /\ pc = "write_fix"
    /\ \E o \in {"ok", "raise"} :
         IF o = "ok"
         THEN /\ write_file("code_file", generated_code)
              /\ pc' = "loop"
              /\ exc' = exc
         ELSE /\ Raise("Exception")
              /\ UNCHANGED <<dir_exists, current_dir, files>>
    /\ UNCHANGED <<cfgVars, test_plan, out_files, loopVars, result, count, histVars,
                   convVars, clsVars, pmVars, concVars, sideVars>>

\* gpt-oss: self.conv.save_successful_code(...), which reads os.path.getmtime(file_name)
SaveSuccess ==
    /\ pc = "save_success"
    /\ \E mtime \in {"ok", "FileNotFoundError"} :
         IF mtime = "ok"
         THEN /\ solutions' = solutions + 1
              /\ pc' = "copy"
              /\ exc' = exc
         ELSE /\ Raise("Exception")
              /\ UNCHANGED solutions
    /\ UNCHANGED <<cfgVars, test_plan, fsVars, loopVars, result, count, histVars, failures,
                   clsVars, pmVars, concVars, sideVars>>

\* shutil.copy of the code file (and, in qwen3-coder, of the test file) to OUTPUT_DIR
CopyOut ==
    /\ pc = "copy"
    /\ LET both == variant = "qwen3coder"
           can_code == files["code_file"] # NoFile
           can_test == files["test_file"] # NoFile
       IN  \E o \in {"ok", "raise_first", "raise_second"} :
             CASE o = "ok" /\ can_code /\ (both => can_test) ->
                    /\ out_files' =
                         [out_files EXCEPT !["code_file"] = files["code_file"],
                                           !["test_file"] =
                                               IF both THEN files["test_file"] ELSE @]
                    /\ pc' = "report"
                    /\ exc' = exc
               [] o = "raise_second" /\ both /\ can_code ->
                    /\ out_files' = [out_files EXCEPT !["code_file"] = files["code_file"]]
                    /\ Raise("Exception")
               [] OTHER ->
                    /\ out_files' = out_files
                    /\ Raise("Exception")
    /\ UNCHANGED <<cfgVars, test_plan, dir_exists, current_dir, files, loopVars, result,
                   count, histVars, convVars, clsVars, pmVars, concVars, sideVars>>

\* the value a run returns after the loop: qwen3-coder returns the pair
\* (generated_code, generated_tests), phi4 and gpt-oss an answer text that quotes
\* the code and the test output
Answer(status, message) ==
    [status |-> status, message |-> message,
     code |-> generated_code,
     tests |-> IF variant = "qwen3coder" THEN generated_tests ELSE Unset,
     output |-> IF variant = "qwen3coder" THEN Unset ELSE test_output]

\* the answer built in `except Exception as e` by phi4 and gpt-oss: the message of
\* the exception and the traceback
ErrorAnswer ==
    [status |-> "error", message |-> "unexpected_error",
     code |-> Unset, tests |-> Unset, output |-> Unset]

\* if test_passed: ... else: analysis_message = ...; the value the run returns
Report ==
    /\ pc = "report"
    /\ IF test_passed
       THEN /\ result' = Answer("success", "all_tests_passed")
            /\ pc' = "finally"
            /\ UNCHANGED <<exc, failures>>
       ELSE \E mtime \in {"ok", "FileNotFoundError"} :
              IF variant = "gptoss" /\ mtime = "FileNotFoundError"
              THEN /\ Raise("Exception")      \* save_failed_code raised
                   /\ UNCHANGED <<result, failures>>
              ELSE /\ failures' = IF variant = "gptoss" THEN failures + 1 ELSE failures
                   /\ result' = Answer("failure", FailureMessage(analysis_result))
                   /\ pc' = "finally"
                   /\ exc' = exc
    /\ UNCHANGED <<cfgVars, test_plan, fsVars, loopVars, count, histVars, solutions,
                   clsVars, pmVars, concVars, sideVars>>

\* except Exception as e: re-raised by qwen3-coder, turned into the answer by the others
Except ==
    /\ pc = "except"
    /\ IF variant = "qwen3coder"
       THEN UNCHANGED <<exc, result>>
       ELSE /\ exc' = "none"
            /\ result' = ErrorAnswer
    /\ pc' = "finally"
    /\ UNCHANGED <<cfgVars, test_plan, fsVars, loopVars, count, histVars, convVars,
                   clsVars, pmVars, concVars, sideVars>>

\* finally: project_manager.cleanup()
Finally ==
    /\ pc = "finally"
    /\ cleanup
    /\ pc' = IF exc = "none" THEN "returned" ELSE "thrown"
    /\ UNCHANGED <<cfgVars, test_plan, exc, out_files, loopVars, result, count, histVars,
                   convVars, clsVars, pmVars, concVars, sideVars>>

Next ==
    \/ CreateProject
    \/ GenerateCode
    \/ WriteCode
    \/ GenerateTestPlan
    \/ LoopHead
    \/ GenerateTests
    \/ WriteTests
    \/ RunTests
    \/ AnalyzeFailure
    \/ Branch
    \/ DebugCode
    \/ WriteFix
    \/ SaveSuccess
    \/ CopyOut
    \/ Report
    \/ Except
    \/ Finally

Spec == Init /\ [][Next]_vars

Done == pc \in {"returned", "thrown"}

\* the run is one sequential program: while it has a next statement and every
\* call it makes returns, it executes that statement
FairSpec == Spec /\ WF_vars(Next)

----------------------------------------------------------------------------
(* A classifier called directly on a service reply *)

ClassifierImpls == {"qwen3coder", "phi4", "gptoss", "qwen3_30b"}

InitClassifier ==
    /\ variant = "none"
    /\ mode = "generate"
    /\ initial_code = "None"
    /\ test_plan = "None"
    /\ MAX_DEBUG_ATTEMPTS = CONFIGURED_DEBUG_ATTEMPTS
    /\ MAX_TEST_REGEN_ATTEMPTS = CONFIGURED_TEST_REGEN_ATTEMPTS
    /\ pc = "classifier"
    /\ exc = "none"
    /\ dir_exists = FALSE
    /\ files = EmptyDir
    /\ current_dir = "None"
    /\ out_files = [f \in {"code_file", "test_file"} |-> NoFile]
    /\ generated_code = Unset
    /\ generated_tests = Unset
    /\ attempt = -1
    /\ test_passed = FALSE
    /\ test_output = Unset
    /\ analysis_result = LABEL_code_bug
    /\ gen_mode = "none"
    /\ result = NoResult
    /\ count = ZeroCount
    /\ exit_statuses = << >>
    /\ classifications = << >>
    /\ service_failed = FALSE
    /\ solutions = 0
    /\ failures = 0
    /\ cls_impl \in ClassifierImpls
    /\ cls_response \in Responses
    /\ cls_result = << >>
    /\ pm_trace = << >>
    /\ pm_ret = NoReturn
    /\ runs = << >>
    /\ disk = << >>
    /\ SideIdle

orchVars == <<cfgVars, test_plan, exc, fsVars, loopVars, result, count, histVars, convVars>>

CallClassifier(impl, value) ==
    /\ pc = "classifier"
    /\ cls_impl = impl
    /\ cls_result' = value
    /\ pc' = "classified"
    /\ UNCHANGED <<orchVars, cls_impl, cls_response, pmVars, concVars, sideVars>>

Call_analyze_test_failure ==
    CallClassifier("qwen3coder", analyze_test_failure(cls_response))

Call_CodingAgentV2_analyze_test_failure ==
    CallClassifier("phi4", CodingAgentV2_analyze_test_failure(cls_response))

Call_gptoss_analyze_test_failure ==
    CallClassifier("gptoss", gptoss_analyze_test_failure(cls_response))

Call_qwen3_30b_analyze_test_failure ==
    CallClassifier("qwen3_30b", qwen3_30b_analyze_test_failure(cls_response))

NextClassifier ==
    \/ Call_analyze_test_failure
    \/ Call_CodingAgentV2_analyze_test_failure
    \/ Call_gptoss_analyze_test_failure
    \/ Call_qwen3_30b_analyze_test_failure

SpecClassifier == InitClassifier /\ [][NextClassifier]_vars

----------------------------------------------------------------------------
(* A ProjectManager called directly, in any order *)

\* bound on the number of direct calls
MaxCalls == 4

InitPM ==
    /\ variant = "none"
    /\ mode = "generate"
    /\ initial_code = "None"
    /\ test_plan = "None"
    /\ MAX_DEBUG_ATTEMPTS = CONFIGURED_DEBUG_ATTEMPTS
    /\ MAX_TEST_REGEN_ATTEMPTS = CONFIGURED_TEST_REGEN_ATTEMPTS
    /\ pc = "project_manager"
    /\ exc = "none"
    /\ dir_exists \in BOOLEAN       \* base_dir may be there from an earlier use
    /\ files = IF dir_exists THEN StaleDir ELSE EmptyDir
    /\ current_dir = "None"
    /\ out_files = [f \in {"code_file", "test_file"} |-> NoFile]
    /\ generated_code = Unset
    /\ generated_tests = Unset
    /\ attempt = -1
    /\ test_passed = FALSE
    /\ test_output = Unset
    /\ analysis_result = LABEL_code_bug
    /\ gen_mode = "none"
    /\ result = NoResult
    /\ count = ZeroCount
    /\ exit_statuses = << >>
    /\ classifications = << >>
    /\ service_failed = FALSE
    /\ solutions = 0
    /\ failures = 0
    /\ cls_impl = "none"
    /\ cls_response = << >>
    /\ cls_result = << >>
    /\ pm_trace = << >>
    /\ pm_ret = NoReturn
    /\ runs = << >>
    /\ disk = << >>
    /\ SideIdle

pmFrame == <<cfgVars, test_plan, pc, exc, out_files, loopVars, result, count, histVars,
             convVars, clsVars, concVars, sideVars>>

PMCall(name) ==
    /\ pc = "project_manager"
    /\ Len(pm_trace) < MaxCalls
    /\ pm_trace' = Append(pm_trace, name)
    /\ UNCHANGED pmFrame

PM_create_project ==
    /\ PMCall("create_project")
    /\ create_project
    /\ pm_ret' = [status |-> "ok", value |-> Unset]

PM_write_file ==
    /\ PMCall("write_file")
    /\ \E f \in {"code_file", "test_file"}, n \in 1..2 :
         IF NotInitialised
         THEN /\ pm_ret' = [status |-> "RuntimeError", value |-> Unset]
              /\ UNCHANGED <<dir_exists, current_dir, files>>
         ELSE /\ write_file(f, Text(n))
              /\ pm_ret' = [status |-> "ok", value |-> Unset]

PM_read_file ==
    /\ PMCall("read_file")
    /\ \E f \in FileNames :
         pm_ret' = IF NotInitialised THEN [status |-> "RuntimeError", value |-> Unset]
                   ELSE IF files[f] = NoFile
                        THEN [status |-> "FileNotFoundError", value |-> Unset]
                        ELSE [status |-> "ok", value |-> files[f]]
    /\ UNCHANGED <<dir_exists, current_dir, files>>

PM_run_command ==
    /\ PMCall("run_command")
    /\ \E raw \in SubprocessOutcomes :
         pm_ret' = IF NotInitialised THEN [status |-> "RuntimeError", value |-> Unset]
                   ELSE [status |-> "ok", value |-> run_command(raw)]
    /\ UNCHANGED <<dir_exists, current_dir, files>>

PM_cleanup ==
    /\ PMCall("cleanup")
    /\ cleanup
    /\ pm_ret' = [status |-> "ok", value |-> Unset]

NextPM ==
    \/ PM_create_project
    \/ PM_write_file
    \/ PM_read_file
    \/ PM_run_command
    \/ PM_cleanup

SpecPM == InitPM /\ [][NextPM]_vars

----------------------------------------------------------------------------
(* Two runs of generate_code_and_tests at the same time *)

Runs == {1, 2}

\* bound on the repair rounds of one concurrent run
MaxRounds == 2

\* project_manager = ProjectManager(base_dir="temp_coding_project")
BaseDir(r) == "temp_coding_project"

Paths == {BaseDir(r) : r \in Runs}

\* a file of a directory is absent (0) or holds what run r wrote last
NoFiles == [f \in {"code_file", "test_file"} |-> 0]

InitConcurrent ==
    /\ variant = "qwen3coder"
    /\ mode = "generate"
    /\ initial_code = "None"
    /\ test_plan = "None"
    /\ MAX_DEBUG_ATTEMPTS = CONFIGURED_DEBUG_ATTEMPTS
    /\ MAX_TEST_REGEN_ATTEMPTS = CONFIGURED_TEST_REGEN_ATTEMPTS
    /\ pc = "concurrent"
    /\ exc = "none"
    /\ dir_exists = FALSE
    /\ files = EmptyDir
    /\ current_dir = "None"
    /\ out_files = [f \in {"code_file", "test_file"} |-> NoFile]
    /\ generated_code = Unset
    /\ generated_tests = Unset
    /\ attempt = -1
    /\ test_passed = FALSE
    /\ test_output = Unset
    /\ analysis_result = LABEL_code_bug
    /\ gen_mode = "none"
    /\ result = NoResult
    /\ count = ZeroCount
    /\ exit_statuses = << >>
    /\ classifications = << >>
    /\ service_failed = FALSE
    /\ solutions = 0
    /\ failures = 0
    /\ cls_impl = "none"
    /\ cls_response = << >>
    /\ cls_result = << >>
    /\ pm_trace = << >>
    /\ pm_ret = NoReturn
    /\ runs = [r \in Runs |-> [pc |-> "start", current_dir |-> "None", round |-> 0,
                               executed |-> NoFiles, raised |-> FALSE]]
    /\ disk = [p \in Paths |-> [exists |-> FALSE, files |-> NoFiles]]
    /\ SideIdle

concFrame == <<cfgVars, test_plan, pc, exc, fsVars, loopVars, result, count, histVars,
               convVars, clsVars, pmVars, sideVars>>

\* run r moves on to `target`
Goto(r, target) == [runs EXCEPT ![r].pc = target]

\* an exception leaves the try block of run r: on to its finally clause
Throw(r) == [runs EXCEPT ![r].pc = "finally", ![r].raised = TRUE]

\* project_manager.create_project(): rmtree of whatever is at base_dir, makedirs
Run_create_project(r) ==
    /\ runs[r].pc = "start"
    /\ disk' = [disk EXCEPT ![BaseDir(r)] = [exists |-> TRUE, files |-> NoFiles]]
    /\ runs' = [runs EXCEPT ![r].pc = "write_code", ![r].current_dir = BaseDir(r)]
    /\ UNCHANGED concFrame

\* project_manager.write_file(name, content): open(..., "w") in current_dir;
\* raises FileNotFoundError when the directory is gone
Run_write_file(r, at, name, target) ==
    /\ runs[r].pc = at
    /\ LET p == runs[r].current_dir
       IN  IF disk[p].exists
           THEN /\ disk' = [disk EXCEPT ![p].files[name] = r]
                /\ runs' = Goto(r, target)
           ELSE /\ disk' = disk
                /\ runs' = Throw(r)
    /\ UNCHANGED concFrame

Run_write_code(r) == Run_write_file(r, "write_code", "code_file", "write_tests")

Run_write_tests(r) == Run_write_file(r, "write_tests", "test_file", "run_tests")

\* project_manager.run_command([... pytest ...]): pytest runs on the files that are
\* in the directory now; a missing directory is a returned failure. Then either
\* the run stops (pass, or loop left) or it repairs and writes the code again.
Run_run_command(r) ==
    /\ runs[r].pc = "run_tests"
    /\ LET p == runs[r].current_dir
           seen == IF disk[p].exists THEN disk[p].files ELSE NoFiles
       IN  \E target \in {"copy"} \cup
                         (IF runs[r].round < MaxRounds THEN {"write_code"} ELSE {}) :
             runs' = [runs EXCEPT ![r].pc = target,
                                  ![r].executed = seen,
                                  ![r].round = IF target = "write_code" THEN @ + 1 ELSE @]
    /\ UNCHANGED <<disk, concFrame>>

\* shutil.copy of the code file and the test file from current_dir to OUTPUT_DIR
Run_copy(r) ==
    /\ runs[r].pc = "copy"
    /\ LET p == runs[r].current_dir
       IN  runs' = IF /\ disk[p].exists
                      /\ disk[p].files["code_file"] # 0
                      /\ disk[p].files["test_file"] # 0
                   THEN Goto(r, "finally")
                   ELSE Throw(r)
    /\ UNCHANGED <<disk, concFrame>>

\* finally: project_manager.cleanup(): rmtree of base_dir if it exists
Run_cleanup(r) ==
    /\ runs[r].pc = "finally"
    /\ disk' = IF disk[BaseDir(r)].exists
               THEN [disk EXCEPT ![BaseDir(r)] = [exists |-> FALSE, files |-> NoFiles]]
               ELSE disk
    /\ runs' = [runs EXCEPT ![r].pc = "done",
                            ![r].current_dir =
                                IF disk[BaseDir(r)].exists THEN "None" ELSE @]
    /\ UNCHANGED concFrame

NextConcurrent ==
    \E r \in Runs :
       \/ Run_create_project(r)
       \/ Run_write_code(r)
       \/ Run_write_tests(r)
       \/ Run_run_command(r)
       \/ Run_copy(r)
       \/ Run_cleanup(r)

SpecConcurrent == InitConcurrent /\ [][NextConcurrent]_vars

----------------------------------------------------------------------------
(* The single-pass orchestrators: execute_coding_agent of qwen3:30b-a3b and *)
(* execute_coding_agent_v2 of devstral                                      *)

SimpleVariants == {"qwen3_30b", "devstral"}

\* exit statuses of a pytest process: passed, tests failed, collection error,
\* command not found
PytestStatuses == {0, 1, 2, 127}

\* what one subprocess.run(["pytest", ...], timeout=30) of qwen3:30b-a3b gives
ProcessOutcomes ==
    {[raised |-> "none", status |-> s] : s \in PytestStatuses}
        \cup {[raised |-> "TimeoutExpired", status |-> 1]}

\* os.popen("pytest -q --tb=no ...").read() of devstral: the text on stdout says
\* FAILED only for a failed test; the exit status stays with the closed pipe
popen_read(status) == IF status = 1 THEN "FAILED" ELSE "no_FAILED"

\* the third element of the tuple assigned to stdout, stderr, returncode
HARDWIRED_RETURNCODE == 0

InitSimple ==
    /\ variant \in SimpleVariants
    /\ mode = "generate"
    /\ initial_code = "None"
    /\ test_plan = "None"
    /\ MAX_DEBUG_ATTEMPTS = 1
    /\ MAX_TEST_REGEN_ATTEMPTS = 1
    /\ pc = IF variant = "qwen3_30b" THEN "plan" ELSE "code"
    /\ exc = "none"
    /\ dir_exists = FALSE
    /\ files = EmptyDir
    /\ current_dir = "None"
    /\ out_files = [f \in {"code_file", "test_file"} |-> NoFile]
    /\ generated_code = Unset
    /\ generated_tests = Unset
    /\ attempt = -1
    /\ test_passed = FALSE
    /\ test_output = Unset
    /\ analysis_result = LABEL_code_bug
    /\ gen_mode = "none"
    /\ result = NoResult
    /\ count = ZeroCount
    /\ exit_statuses = << >>
    /\ classifications = << >>
    /\ service_failed = FALSE
    /\ solutions = 0
    /\ failures = 0
    /\ cls_impl = "none"
    /\ cls_response = << >>
    /\ cls_result = << >>
    /\ pm_trace = << >>
    /\ pm_ret = NoReturn
    /\ runs = << >>
    /\ disk = << >>
    /\ SideIdle

simpleFrame == <<cfgVars, current_dir, attempt, test_passed, analysis_result, gen_mode,
                 classifications, convVars, clsVars, pmVars, concVars, sideVars>>

\* how a request of these variants can end: qwen3:30b-a3b catches every Exception
\* in call_ollama_api, devstral only RequestException
SimpleServiceOutcomes ==
    {"ok", "unavailable"} \cup (IF variant = "devstral" THEN {"raise"} ELSE {})

\* test_plan = generate_test_plan(language, prompt)
Simple_generate_test_plan ==
    /\ pc = "plan"
    /\ variant = "qwen3_30b"
    /\ \E o \in SimpleServiceOutcomes :
         /\ test_plan' = IF o = "ok" THEN "plan" ELSE "error_text"
         /\ service_failed' = (service_failed \/ o # "ok")
    /\ count' = BumpCall(count, "gen_plan")
    /\ pc' = "code"
    /\ UNCHANGED <<simpleFrame, exc, dir_exists, files, out_files, generated_code,
                   generated_tests, test_output, result, exit_statuses>>

\* code = generate_code(...); the code file is written (qwen3:30b-a3b: into a
\* TemporaryDirectory, devstral: into the working directory)
Simple_generate_code ==
    /\ pc = "code"
    /\ count' = BumpCall(count, "gen_code")
    /\ \E o \in SimpleServiceOutcomes :
         /\ service_failed' = (service_failed \/ o # "ok")
         /\ IF o = "raise"
            THEN /\ pc' = "except"
                 /\ exc' = "Exception"
                 /\ UNCHANGED <<generated_code, dir_exists, files>>
            ELSE /\ generated_code' = (IF o = "ok" THEN Text(1) ELSE ErrorText)
                 /\ dir_exists' = TRUE
                 /\ files' = [files EXCEPT !["code_file"] = generated_code']
                 /\ pc' = "tests"
                 /\ exc' = exc
    /\ UNCHANGED <<simpleFrame, test_plan, out_files, generated_tests, test_output,
                   result, exit_statuses>>

\* test_code = generate_unit_tests(...); the test file is written
Simple_generate_unit_tests ==
    /\ pc = "tests"
    /\ count' = BumpCall(count, "gen_tests")
    /\ \E o \in SimpleServiceOutcomes :
         /\ service_failed' = (service_failed \/ o # "ok")
         /\ IF o = "raise"
            THEN /\ pc' = "except"
                 /\ exc' = "Exception"
                 /\ UNCHANGED <<generated_tests, files>>
            ELSE /\ generated_tests' = (IF o = "ok" THEN Text(2) ELSE ErrorText)
                 /\ files' = [files EXCEPT !["test_file"] = generated_tests']
                 /\ pc' = "run"
                 /\ exc' = exc
    /\ UNCHANGED <<simpleFrame, test_plan, dir_exists, out_files, generated_code,
                   test_output, result, exit_statuses>>

\* qwen3:30b-a3b: stdout, stderr, returncode =
\*     subprocess.run(...).stdout, subprocess.run(...).stderr, 0
\* pytest runs twice; a TimeoutExpired of either run leaves the function, and the
\* `with tempfile.TemporaryDirectory()` removes the directory on the way out
Agent30b_run_tests ==
    /\ pc = "run"
    /\ variant = "qwen3_30b"
    /\ \E first \in ProcessOutcomes, second \in ProcessOutcomes :
         IF first.raised # "none"
         THEN /\ count' = Bump(count, "exec")
              /\ exit_statuses' = exit_statuses
              /\ test_output' = test_output
              /\ exc' = "Exception"
              /\ pc' = "thrown"
              /\ dir_exists' = FALSE
              /\ files' = EmptyDir
         ELSE IF second.raised # "none"
         THEN /\ count' = Bump(Bump(count, "exec"), "exec")
              /\ exit_statuses' = Append(exit_statuses, first.status)
              /\ test_output' = test_output
              /\ exc' = "Exception"
              /\ pc' = "thrown"
              /\ dir_exists' = FALSE
              /\ files' = EmptyDir
         ELSE /\ count' = Bump(Bump(count, "exec"), "exec")
              /\ exit_statuses' = Append(Append(exit_statuses, first.status),
                                          second.status)
              /\ test_output' = [out |-> "report", err |-> "",
                                 returncode |-> HARDWIRED_RETURNCODE]
              /\ exc' = exc
              /\ pc' = "report"
              /\ UNCHANGED <<dir_exists, files>>
    /\ UNCHANGED <<simpleFrame, test_plan, out_files, generated_code, generated_tests,
                   result, service_failed>>

\* qwen3:30b-a3b: if returncode == 0: shutil.copy(...); return "Tests passed!".
\* The debugging loop behind it is entered only with another returncode.
Agent30b_report ==
    /\ pc = "report"
    /\ variant = "qwen3_30b"
    /\ test_output.returncode = 0
    /\ out_files' = [out_files EXCEPT !["code_file"] = files["code_file"]]
    /\ result' = [status |-> "success", message |-> "all_tests_passed",
                  code |-> generated_code, tests |-> Unset, output |-> Unset]
    /\ dir_exists' = FALSE
    /\ files' = EmptyDir
    /\ pc' = "returned"
    /\ UNCHANGED <<simpleFrame, test_plan, exc, generated_code, generated_tests,
                   test_output, count, exit_statuses, service_failed>>

\* devstral: test_output = os.popen(f"pytest -q --tb=no {test_file}").read()
Devstral_run_tests ==
    /\ pc = "run"
    /\ variant = "devstral"
    /\ \E status \in PytestStatuses :
         /\ exit_statuses' = Append(exit_statuses, status)
         /\ test_output' = [out |-> popen_read(status), err |-> ""]
    /\ count' = Bump(count, "exec")
    /\ pc' = "report"
    /\ UNCHANGED <<simpleFrame, test_plan, exc, dir_exists, files, out_files,
                   generated_code, generated_tests, result, service_failed>>

\* devstral: if "FAILED" not in test_output: return "... All tests passed ..."
\* else: return "Code generation failed. Tests did not pass ..."
Devstral_report ==
    /\ pc = "report"
    /\ variant = "devstral"
    /\ result' = [status |-> IF test_output.out # "FAILED" THEN "success" ELSE "failure",
                  message |-> IF test_output.out # "FAILED" THEN "all_tests_passed"
                              ELSE "tests_did_not_pass",
                  code |-> generated_code, tests |-> Unset, output |-> test_output]
    /\ pc' = "returned"
    /\ UNCHANGED <<simpleFrame, test_plan, exc, dir_exists, files, out_files,
                   generated_code, generated_tests, test_output, count, exit_statuses,
                   service_failed>>

\* devstral: except Exception as e: return f"An error occurred during execution ..."
Devstral_except ==
    /\ pc = "except"
    /\ variant = "devstral"
    /\ exc' = "none"
    /\ result' = ErrorAnswer
    /\ pc' = "returned"
    /\ UNCHANGED <<simpleFrame, test_plan, dir_exists, files, out_files, generated_code,
                   generated_tests, test_output, count, exit_statuses, service_failed>>

NextSimple ==
    \/ Simple_generate_test_plan
    \/ Simple_generate_code
    \/ Simple_generate_unit_tests
    \/ Agent30b_run_tests
    \/ Agent30b_report
    \/ Devstral_run_tests
    \/ Devstral_report
    \/ Devstral_except

SpecSimple == InitSimple /\ [][NextSimple]_vars

----------------------------------------------------------------------------
(* Two runs of generate_code_and_tests fed the same responses *)

\* the orchestrator variables of the single-run model, at rest
OrchestratorIdle(position) ==
    /\ mode = "generate"
    /\ initial_code = "None"
    /\ pc = position
    /\ exc = "none"
    /\ dir_exists = FALSE
    /\ files = EmptyDir
    /\ current_dir = "None"
    /\ out_files = [f \in {"code_file", "test_file"} |-> NoFile]
    /\ generated_code = Unset
    /\ generated_tests = Unset
    /\ attempt = -1
    /\ test_passed = FALSE
    /\ test_output = Unset
    /\ analysis_result = LABEL_code_bug
    /\ gen_mode = "none"
    /\ result = NoResult
    /\ count = ZeroCount
    /\ exit_statuses = << >>
    /\ classifications = << >>
    /\ service_failed = FALSE
    /\ solutions = 0
    /\ failures = 0
    /\ cls_impl = "none"
    /\ cls_response = << >>
    /\ cls_result = << >>
    /\ pm_trace = << >>
    /\ pm_ret = NoReturn
    /\ runs = << >>
    /\ disk = << >>

\* what a stub can answer to the call a run makes at position p
NoResponse == [outcome |-> "none", reply |-> << >>]

ResponsesAt(p) ==
    CASE p \in {"gen_code", "gen_plan", "gen_tests", "debug"} ->
             {[outcome |-> o, reply |-> << >>] : o \in {"ok", "unavailable", "raise"}}
      [] p = "run_tests" ->
             {[outcome |-> raw, reply |-> << >>] : raw \in SubprocessOutcomes}
      [] p = "analyze" ->
             {[outcome |-> "ok", reply |-> r] :
                  r \in {LABEL_code_bug, TEXT_upper_test_bug, TEXT_unknown}}
                 \cup {[outcome |-> "raise", reply |-> << >>]}
      [] OTHER -> {NoResponse}

\* what is in the working directory when a run starts: nothing, or the sandbox
\* and the output files an earlier run left behind
CleanEnvironment ==
    [dir |-> [exists |-> FALSE, files |-> EmptyDir],
     out |-> [f \in {"code_file", "test_file"} |-> NoFile]]

Leftovers ==
    {[dir |-> [exists |-> e, files |-> IF e THEN StaleDir ELSE EmptyDir],
      out |-> [f \in {"code_file", "test_file"} |-> o]] :
         e \in BOOLEAN, o \in {NoFile, Stale}}

\* the local variables of generate_code_and_tests on entry, the calls made so far
FreshRun(env) ==
    [pc |-> "start", attempt |-> -1, code |-> Unset, tests |-> Unset, plan |-> test_plan,
     passed |-> FALSE, output |-> Unset, analysis |-> LABEL_code_bug,
     calls |-> << >>, result |-> NoResult, raised |-> FALSE,
     dir |-> env.dir, out |-> env.out]

\* an exception leaves the try block after the call `name`
Raised(s, name) ==
    [s EXCEPT !.pc = "finally", !.raised = TRUE, !.calls = Append(@, name)]

\* a copy that does not replace a file already in OUTPUT_DIR
copy_to_output_if_absent(out, name, content) ==
    IF out[name] = NoFile THEN [out EXCEPT ![name] = content] ELSE out

\* shutil.copy(os.path.join(current_dir, name), os.path.join(OUTPUT_DIR, name))
copy_to_output(out, name, content) == [out EXCEPT ![name] = content]

\* one statement of generate_code_and_tests, given the response to the call it makes
StepRun(s, resp) ==
    LET text == call_ollama_api(resp.outcome, Len(s.calls) + 1)
    IN
    CASE s.pc = "start" ->
           [s EXCEPT !.dir = [exists |-> TRUE, files |-> EmptyDir],
                     !.calls = Append(@, "create_project"),
                     !.pc = "gen_code"]
      [] s.pc = "gen_code" ->
           IF resp.outcome = "raise" THEN Raised(s, "generate_code")
           ELSE [s EXCEPT !.code = text,
                          !.dir.files["code_file"] = text,
                          !.calls = Append(Append(@, "generate_code"), "write_file"),
                          !.pc = IF s.plan = "None" THEN "gen_plan" ELSE "loop"]
      [] s.pc = "gen_plan" ->
           IF resp.outcome = "raise" THEN Raised(s, "generate_test_plan")
           ELSE [s EXCEPT !.plan = IF resp.outcome = "ok" THEN "plan" ELSE "error_text",
                          !.calls = Append(@, "generate_test_plan"),
                          !.pc = "loop"]
      [] s.pc = "loop" ->
           IF NextIndex(s.attempt) < LoopRange
           THEN [s EXCEPT !.attempt = NextIndex(s.attempt), !.pc = "gen_tests"]
           ELSE [s EXCEPT !.pc = "copy"]
      [] s.pc = "gen_tests" ->
           IF resp.outcome = "raise" THEN Raised(s, "generate_unit_tests")
           ELSE [s EXCEPT !.tests = text,
                          !.dir.files["test_file"] = text,
                          !.calls = Append(Append(@, "generate_unit_tests"), "write_file"),
                          !.pc = "run_tests"]
      [] s.pc = "run_tests" ->
           LET o == run_command(resp.outcome)
           IN  IF o.rc = 0
               THEN [s EXCEPT !.passed = TRUE,
                              !.output = [out |-> o.out, err |-> ""],
                              !.calls = Append(@, "run_command"),
                              !.pc = "copy"]
               ELSE [s EXCEPT !.output = [out |-> o.out, err |-> o.err],
                              !.calls = Append(@, "run_command"),
                              !.pc = "analyze"]
      [] s.pc = "analyze" ->
           IF resp.outcome = "raise" THEN Raised(s, "analyze_test_failure")
           ELSE [s EXCEPT !.analysis = analyze_test_failure(resp.reply),
                          !.calls = Append(@, "analyze_test_failure"),
                          !.pc = "branch"]
      [] s.pc = "branch" ->
           LET d == Decide(s.analysis, s.attempt)
           IN  [s EXCEPT !.pc = CASE d = "repair" -> "debug"
                                  [] d = "regenerate" -> "loop"
                                  [] OTHER -> "copy"]
      [] s.pc = "debug" ->
           IF resp.outcome = "raise" THEN Raised(s, "debug_code")
           ELSE [s EXCEPT !.code = text,
                          !.dir.files["code_file"] = text,
                          !.calls = Append(Append(@, "debug_code"), "write_file"),
                          !.pc = "loop"]
      [] s.pc = "copy" ->
           IF s.dir.files["code_file"] = NoFile \/ s.dir.files["test_file"] = NoFile
           THEN Raised(s, "copy")
           ELSE [s EXCEPT !.out = copy_to_output(
                                      copy_to_output(@, "code_file",
                                                     s.dir.files["code_file"]),
                                      "test_file", s.dir.files["test_file"]),
                          !.calls = Append(Append(@, "copy"), "copy"),
                          !.pc = "report"]
      [] s.pc = "report" ->
           [s EXCEPT !.result =
                        [status |-> IF s.passed THEN "success" ELSE "failure",
                         message |-> IF s.passed THEN "all_tests_passed"
                                     ELSE FailureMessage(s.analysis),
                         code |-> s.code, tests |-> s.tests, output |-> Unset],
                     !.pc = "finally"]
      [] s.pc = "finally" ->
           [s EXCEPT !.dir = [exists |-> FALSE, files |-> EmptyDir],
                     !.calls = Append(@, "cleanup"),
                     !.pc = IF s.raised THEN "thrown" ELSE "returned"]
      [] OTHER -> s

InitTwin ==
    /\ variant = "qwen3coder"
    /\ test_plan \in {"None", "plan"}
    /\ \E limits \in LimitPairs :
         /\ MAX_DEBUG_ATTEMPTS = limits[1]
         /\ MAX_TEST_REGEN_ATTEMPTS = limits[2]
    /\ OrchestratorIdle("twin")
    /\ \E env \in Leftovers : twin = <<FreshRun(CleanEnvironment), FreshRun(env)>>
    /\ DbIdle
    /\ ChatIdle
    /\ TestedIdle
    /\ TurnIdle

twinFrame == <<cfgVars, test_plan, pc, exc, fsVars, loopVars, result, count, histVars,
               convVars, clsVars, pmVars, concVars, dbVars, chatVars, testedVars,
               turnVars>>

\* both runs execute their next statement; the stub gives both the same response
TwinStep ==
    /\ pc = "twin"
    /\ twin[1].pc \notin {"returned", "thrown"}
    /\ \E resp \in ResponsesAt(twin[1].pc) :
         twin' = <<StepRun(twin[1], resp), StepRun(twin[2], resp)>>
    /\ UNCHANGED twinFrame

NextTwin == TwinStep

SpecTwin == InitTwin /\ [][NextTwin]_vars

----------------------------------------------------------------------------
(* ConversationManager: the code_solutions and code_failures tables *)

\* bound on the rows saved in all, and on the readings of the clock
MaxSaves == 3
MaxClock == 2

SavedFileNames == {"a.py", "b.py"}

\* the row of the failed read: fetchone() gave None
NoRow == 0

\* rowids of the rows of a table saved under file_name
Matching(table, file_name) == {i \in DOMAIN table : table[i].file_name = file_name}

\* INSERT INTO ... VALUES (..., now): the new row gets the next rowid. The
\* timestamp is datetime.now().isoformat(), a text whose order is the order of
\* the instants it was taken from
insert(table, file_name, now) ==
    Append(table, [file_name |-> file_name, content |-> Len(table) + 1, timestamp |-> now])

\* SELECT ... WHERE file_name = ? ORDER BY timestamp DESC LIMIT 1 and fetchone():
\* the rows the query may give; rows with equal timestamps come in no defined order
select_latest(table, file_name) ==
    LET ids == Matching(table, file_name)
    IN  IF ids = {} THEN {NoRow}
        ELSE {i \in ids : \A j \in ids : table[i].timestamp >= table[j].timestamp}

\* SELECT ... WHERE file_name = ? ORDER BY timestamp DESC and fetchall()
select_all(table, file_name) ==
    LET ids == Matching(table, file_name)
        n == Cardinality(ids)
    IN  {q \in [1..n -> ids] :
           /\ \A i, j \in 1..n : i < j => q[i] # q[j]
           /\ \A i, j \in 1..n : i < j => table[q[i]].timestamp >= table[q[j]].timestamp}

InitDb ==
    /\ variant = "none"
    /\ test_plan = "None"
    /\ MAX_DEBUG_ATTEMPTS = CONFIGURED_DEBUG_ATTEMPTS
    /\ MAX_TEST_REGEN_ATTEMPTS = CONFIGURED_TEST_REGEN_ATTEMPTS
    /\ OrchestratorIdle("database")
    /\ TwinIdle
    /\ ChatIdle
    /\ TestedIdle
    /\ TurnIdle
    /\ code_solutions = << >>
    /\ code_failures = << >>
    /\ db_clock = 0
    /\ db_read = [op |-> "none", file_name |-> "none", rows |-> << >>]

dbFrame == <<cfgVars, test_plan, pc, exc, fsVars, loopVars, result, count, histVars,
             convVars, clsVars, pmVars, concVars, twinVars, chatVars, testedVars,
               turnVars>>

\* time passes
ClockAdvances ==
    /\ pc = "database"
    /\ db_clock < MaxClock
    /\ db_clock' = db_clock + 1
    /\ UNCHANGED <<code_solutions, code_failures, db_read, dbFrame>>

\* datetime.now() is the local wall clock: it is set back at the end of daylight
\* saving time or by a clock adjustment
ClockSetBack ==
    /\ pc = "database"
    /\ db_clock > 0
    /\ db_clock' = db_clock - 1
    /\ UNCHANGED <<code_solutions, code_failures, db_read, dbFrame>>

save_successful_code ==
    /\ pc = "database"
    /\ Len(code_solutions) + Len(code_failures) < MaxSaves
    /\ \E file_name \in SavedFileNames :
         code_solutions' = insert(code_solutions, file_name, db_clock)
    /\ UNCHANGED <<code_failures, db_clock, db_read, dbFrame>>

save_failed_code ==
    /\ pc = "database"
    /\ Len(code_solutions) + Len(code_failures) < MaxSaves
    /\ \E file_name \in SavedFileNames :
         code_failures' = insert(code_failures, file_name, db_clock)
    /\ UNCHANGED <<code_solutions, db_clock, db_read, dbFrame>>

get_code_solution ==
    /\ pc = "database"
    /\ \E file_name \in SavedFileNames : \E row \in select_latest(code_solutions, file_name) :
         db_read' = [op |-> "get_code_solution", file_name |-> file_name,
                     rows |-> IF row = NoRow THEN << >> ELSE <<row>>]
    /\ UNCHANGED <<code_solutions, code_failures, db_clock, dbFrame>>

get_failed_attempts ==
    /\ pc = "database"
    /\ \E file_name \in SavedFileNames : \E rows \in select_all(code_failures, file_name) :
         db_read' = [op |-> "get_failed_attempts", file_name |-> file_name,
                     rows |-> rows]
    /\ UNCHANGED <<code_solutions, code_failures, db_clock, dbFrame>>

NextDb ==
    \/ ClockAdvances
    \/ ClockSetBack
    \/ save_successful_code
    \/ save_failed_code
    \/ get_code_solution
    \/ get_failed_attempts

SpecDb == InitDb /\ [][NextDb]_vars

----------------------------------------------------------------------------
(* The chat front ends: gemma3-manual-fix.py and gpt-oss.py *)

\* bound on the requests posted and conversations cleared in one session
MaxEvents == 4

\* bound on the worker threads followed at the same time
MaxWorkers == 2

FrontEnds == {"gemma3", "gptoss_ui", "qwen25_ui"}
AttachableFiles == {"notes.txt"}

\* {"role": "user", "content": prompt}: the n-th prompt of the session, with the
\* contents of the attached files appended to it
UserMessage(n, attached) == [role |-> "user", n |-> n, files |-> attached]

\* {"role": "assistant", "content": response_text}: the reply to the n-th prompt
AssistantMessage(n) == [role |-> "assistant", n |-> n, files |-> {}]

\* the requests posted so far
Posted == {i \in DOMAIN sent : sent[i].kind = "post"}

\* requests.post(f"{OLLAMA_BASE_URL}/api/chat", json=payload, stream=True): the
\* message list is serialised when the request is made
post(messages) == Append(sent, [kind |-> "post", messages |-> messages, replied |-> FALSE])

\* the streamed reply was read to its end
Replied == [sent EXCEPT ![request[1].event].replied = TRUE]

Cleared == Append(sent, [kind |-> "reset", messages |-> << >>, replied |-> FALSE])

InitChat ==
    /\ variant \in FrontEnds
    /\ test_plan = "None"
    /\ MAX_DEBUG_ATTEMPTS = CONFIGURED_DEBUG_ATTEMPTS
    /\ MAX_TEST_REGEN_ATTEMPTS = CONFIGURED_TEST_REGEN_ATTEMPTS
    /\ OrchestratorIdle("chat")
    /\ TwinIdle
    /\ DbIdle
    /\ TestedIdle
    /\ TurnIdle
    /\ chat_history = << >>
    /\ attached_files = {}
    /\ request = << >>
    /\ sent = << >>

chatFrame == <<cfgVars, test_plan, pc, exc, fsVars, loopVars, result, count, histVars,
               convVars, clsVars, pmVars, concVars, twinVars, dbVars, testedVars,
               turnVars>>

\* either front end: self.attached_files = filenames
attach_text_files ==
    /\ pc = "chat"
    /\ attached_files = {}
    /\ attached_files' = AttachableFiles
    /\ UNCHANGED <<chat_history, request, sent, chatFrame>>

\* the workers that were started and have not posted their request yet
Unposted == {i \in DOMAIN request : request[i].stage = "started"}

\* a sequence without its i-th element
Without(seq, i) == SubSeq(seq, 1, i - 1) \o SubSeq(seq, i + 1, Len(seq))

\* gemma3: MultiFunctionApp.submit creates a new ApiWorker, binds it to self.worker
\* and starts it, whether or not an earlier worker is still running: the submit
\* button is never disabled and submit looks at no worker
Gemma3_submit ==
    /\ pc = "chat"
    /\ variant = "gemma3"
    /\ Len(sent) + Cardinality(Unposted) < MaxEvents
    /\ Len(request) < MaxWorkers
    /\ request' = Append(request,
                         [stage |-> "started",
                          n |-> Cardinality(Posted) + Cardinality(Unposted) + 1,
                          files |-> {}, event |-> 0, worker_history |-> << >>])
    /\ UNCHANGED <<chat_history, attached_files, sent, chatFrame>>

\* gemma3: ApiWorker.run up to the request: self.chat_history = [], the prompt is
\* appended to it and the list is posted
Gemma3_ApiWorker_post ==
    /\ pc = "chat"
    /\ variant = "gemma3"
    /\ \E i \in DOMAIN request :
         /\ request[i].stage = "started"
         /\ LET r == request[i]
                history == Append(<< >>, UserMessage(r.n, r.files))
            IN  /\ sent' = post(history)
                /\ \E o \in {"ok", "error"} :
                     request' = IF o = "ok"
                                THEN [request EXCEPT
                                        ![i] = [r EXCEPT !.stage = "streaming",
                                                         !.event = Len(sent'),
                                                         !.worker_history = history]]
                                ELSE Without(request, i)
    /\ UNCHANGED <<chat_history, attached_files, chatFrame>>

\* gemma3: ApiWorker.run after the stream: the reply is appended to the worker's
\* own list, which ends with the worker
Gemma3_ApiWorker_finish ==
    /\ pc = "chat"
    /\ variant = "gemma3"
    /\ \E i \in DOMAIN request :
         /\ request[i].stage = "streaming"
         /\ sent' = [sent EXCEPT ![request[i].event].replied = TRUE]
         /\ request' = Without(request, i)
    /\ UNCHANGED <<chat_history, attached_files, chatFrame>>

\* gemma3: MultiFunctionApp.clear_conversation
clear_conversation ==
    /\ pc = "chat"
    /\ variant = "gemma3"
    /\ Len(sent) < MaxEvents
    /\ chat_history' = << >>
    /\ sent' = Cleared
    /\ UNCHANGED <<attached_files, request, chatFrame>>

\* gpt-oss.py: submit up to its first QApplication.processEvents(): the attached
\* files are read into the prompt and the list of attachments is cleared
submit_begin ==
    /\ pc = "chat"
    /\ variant = "gptoss_ui"
    /\ request = << >>
    /\ Len(sent) < MaxEvents
    /\ request' = <<[stage |-> "started", n |-> Cardinality(Posted) + 1,
                     files |-> attached_files, event |-> 0, worker_history |-> << >>]>>
    /\ attached_files' = {}
    /\ UNCHANGED <<chat_history, sent, chatFrame>>

\* gpt-oss.py: the user message is appended to self.chat_history and the list is
\* posted; a failed request leaves the user message in the list
submit_post ==
    /\ pc = "chat"
    /\ variant = "gptoss_ui"
    /\ request # << >>
    /\ request[1].stage = "started"
    /\ LET r == request[1]
       IN  /\ chat_history' = Append(chat_history, UserMessage(r.n, r.files))
           /\ sent' = post(chat_history')
           /\ \E o \in {"ok", "error"} :
                request' = IF o = "ok"
                           THEN <<[r EXCEPT !.stage = "streaming", !.event = Len(sent')]>>
                           ELSE << >>
    /\ UNCHANGED <<attached_files, chatFrame>>

\* gpt-oss.py: the stream was read, with QApplication.processEvents() after every
\* line; the reply is appended to self.chat_history
submit_finish ==
    /\ pc = "chat"
    /\ variant = "gptoss_ui"
    /\ request # << >>
    /\ request[1].stage = "streaming"
    /\ chat_history' = Append(chat_history, AssistantMessage(request[1].n))
    /\ sent' = Replied
    /\ request' = << >>
    /\ UNCHANGED <<attached_files, chatFrame>>

\* gpt-oss.py: reset_conversation, the slot of the reset button. The button stays
\* enabled while submit runs, and submit's processEvents() calls deliver its click
reset_conversation ==
    /\ pc = "chat"
    /\ variant = "gptoss_ui"
    /\ Len(sent) < MaxEvents
    /\ chat_history' = << >>
    /\ attached_files' = {}
    /\ sent' = Cleared
    /\ UNCHANGED <<request, chatFrame>>

\* qwen2-5-coder.py: submit up to its first QApplication.processEvents(); an empty
\* prompt is submitted like any other
Qwen25_submit_begin ==
    /\ pc = "chat"
    /\ variant = "qwen25_ui"
    /\ request = << >>
    /\ Len(sent) < MaxEvents
    /\ request' = <<[stage |-> "started", n |-> Cardinality(Posted) + 1,
                     files |-> attached_files, event |-> 0, worker_history |-> << >>]>>
    /\ attached_files' = {}
    /\ UNCHANGED <<chat_history, sent, chatFrame>>

\* qwen2-5-coder.py: the user message is appended to self.chat_history and the
\* list is posted; both except clauses only show the error
Qwen25_submit_post ==
    /\ pc = "chat"
    /\ variant = "qwen25_ui"
    /\ request # << >>
    /\ request[1].stage = "started"
    /\ LET r == request[1]
       IN  /\ chat_history' = Append(chat_history, UserMessage(r.n, r.files))
           /\ sent' = post(chat_history')
           /\ \E o \in {"ok", "error"} :
                request' = IF o = "ok"
                           THEN <<[r EXCEPT !.stage = "streaming", !.event = Len(sent')]>>
                           ELSE << >>
    /\ UNCHANGED <<attached_files, chatFrame>>

\* qwen2-5-coder.py: the stream was read; the reply is appended to the list that
\* self.chat_history names at that moment
Qwen25_submit_finish ==
    /\ pc = "chat"
    /\ variant = "qwen25_ui"
    /\ request # << >>
    /\ request[1].stage = "streaming"
    /\ chat_history' = Append(chat_history, AssistantMessage(request[1].n))
    /\ sent' = Replied
    /\ request' = << >>
    /\ UNCHANGED <<attached_files, chatFrame>>

\* qwen2-5-coder.py: reset_conversation: self.chat_history = []; the attached files
\* stay
Qwen25_reset_conversation ==
    /\ pc = "chat"
    /\ variant = "qwen25_ui"
    /\ Len(sent) < MaxEvents
    /\ chat_history' = << >>
    /\ sent' = Cleared
    /\ UNCHANGED <<attached_files, request, chatFrame>>

NextChat ==
    \/ attach_text_files
    \/ Gemma3_submit
    \/ Gemma3_ApiWorker_post
    \/ Gemma3_ApiWorker_finish
    \/ clear_conversation
    \/ submit_begin
    \/ submit_post
    \/ submit_finish
    \/ reset_conversation
    \/ Qwen25_submit_begin
    \/ Qwen25_submit_post
    \/ Qwen25_submit_finish
    \/ Qwen25_reset_conversation

SpecChat == InitChat /\ [][NextChat]_vars

----------------------------------------------------------------------------
(* execute_coding_agent_v2 of deepseek-r1:32b *)

\* _call_ollama_api catches RequestException only
DeepseekServiceOutcomes == {"ok", "unavailable", "raise"}

\* ProjectManager.run_command of this file: both except clauses return status 1
Deepseek_run_command(raw) == IF raw = "exit_0" THEN 0 ELSE 1

\* MAX_DEBUG_ATTEMPTS = 3 and MAX_TEST_REGEN_ATTEMPTS = 2 in this file as well
InitDeepseek ==
    /\ variant = "deepseek"
    /\ test_plan = "plan"
    /\ MAX_DEBUG_ATTEMPTS = CONFIGURED_DEBUG_ATTEMPTS
    /\ MAX_TEST_REGEN_ATTEMPTS = CONFIGURED_TEST_REGEN_ATTEMPTS
    /\ OrchestratorIdle("start")
    /\ SideIdle

deepseekFrame == <<cfgVars, test_plan, analysis_result, gen_mode, classifications,
                   convVars, clsVars, pmVars, concVars, sideVars>>

\* try: self.project_manager.create_project()
Deepseek_create_project ==
    /\ pc = "start"
    /\ variant = "deepseek"
    /\ create_project
    /\ count' = Bump(count, "create")
    /\ pc' = "gen_code"
    /\ UNCHANGED <<deepseekFrame, exc, out_files, generated_code, generated_tests, attempt,
                   test_passed, test_output, result, exit_statuses, service_failed>>

\* generated_code = self._generate_code(...); write_file(code_file, generated_code);
\* test_output = ""
Deepseek_generate_code ==
    /\ pc = "gen_code"
    /\ variant = "deepseek"
    /\ count' = BumpCall(count, "gen_code")
    /\ \E o \in DeepseekServiceOutcomes :
         /\ NoteOutcome(o)
         /\ IF o = "raise"
            THEN /\ Raise("Exception")
                 /\ UNCHANGED <<generated_code, files, test_output>>
            ELSE /\ generated_code' = call_ollama_api(o, count'.calls)
                 /\ files' = [files EXCEPT !["code_file"] = generated_code']
                 /\ test_output' = [out |-> "", err |-> ""]
                 /\ pc' = "loop"
                 /\ exc' = exc
    /\ UNCHANGED <<deepseekFrame, dir_exists, current_dir, out_files, generated_tests,
                   attempt, test_passed, result, exit_statuses>>

\* for attempt in range(MAX_DEBUG_ATTEMPTS + MAX_TEST_REGEN_ATTEMPTS)
Deepseek_loop ==
    /\ pc = "loop"
    /\ variant = "deepseek"
    /\ IF NextIndex(attempt) < LoopRange
       THEN /\ attempt' = NextIndex(attempt)
            /\ pc' = "gen_tests"
       ELSE /\ attempt' = attempt
            /\ pc' = "copy"
    /\ UNCHANGED <<deepseekFrame, exc, fsVars, generated_code, generated_tests, test_passed,
                   test_output, result, count, exit_statuses, service_failed>>

\* generated_tests = self._generate_unit_tests(code_file, generated_code, test_plan);
\* write_file(test_file, generated_tests)
Deepseek_generate_unit_tests ==
    /\ pc = "gen_tests"
    /\ variant = "deepseek"
    /\ count' = BumpCall(count, "gen_tests")
    /\ \E o \in DeepseekServiceOutcomes :
         /\ NoteOutcome(o)
         /\ IF o = "raise"
            THEN /\ Raise("Exception")
                 /\ UNCHANGED <<generated_tests, files>>
            ELSE /\ generated_tests' = call_ollama_api(o, count'.calls)
                 /\ files' = [files EXCEPT !["test_file"] = generated_tests']
                 /\ pc' = "run_tests"
                 /\ exc' = exc
    /\ UNCHANGED <<deepseekFrame, dir_exists, current_dir, out_files, generated_code,
                   attempt, test_passed, test_output, result, exit_statuses>>

\* stdout, stderr, returncode = run_command([... pytest ...]);
\* if returncode == 0: test_passed = True; break -- and nothing else in the body
Deepseek_run_tests ==
    /\ pc = "run_tests"
    /\ variant = "deepseek"
    /\ count' = Bump(count, "exec")
    /\ \E raw \in SubprocessOutcomes :
         LET returncode == Deepseek_run_command(raw)
         IN  /\ exit_statuses' = Append(exit_statuses, returncode)
             /\ test_passed' = (returncode = 0)
             /\ pc' = IF returncode = 0 THEN "copy" ELSE "loop"
    /\ UNCHANGED <<deepseekFrame, exc, fsVars, generated_code, generated_tests, attempt,
                   test_output, result, service_failed>>

\* shutil.copy(os.path.join(current_dir, code_file), final_file_path)
Deepseek_copy ==
    /\ pc = "copy"
    /\ variant = "deepseek"
    /\ \E o \in {"ok", "raise"} :
         IF o = "ok"
         THEN /\ out_files' = copy_to_output(out_files, "code_file", files["code_file"])
              /\ pc' = "report"
              /\ exc' = exc
         ELSE /\ Raise("Exception")
              /\ UNCHANGED out_files
    /\ UNCHANGED <<deepseekFrame, dir_exists, current_dir, files, generated_code,
                   generated_tests, attempt, test_passed, test_output, result, count,
                   exit_statuses, service_failed>>

\* final_answer = "I have successfully ..." / "I was unable to produce ..."
Deepseek_report ==
    /\ pc = "report"
    /\ variant = "deepseek"
    /\ result' = [NoResult EXCEPT !.status = IF test_passed THEN "success" ELSE "failure",
                                  !.message = IF test_passed THEN "all_tests_passed"
                                              ELSE "unable_to_produce"]
    /\ pc' = "finally"
    /\ UNCHANGED <<deepseekFrame, exc, fsVars, generated_code, generated_tests, attempt,
                   test_passed, test_output, count, exit_statuses, service_failed>>

\* except Exception as e: final_answer = "An unexpected error occurred: ..."
Deepseek_except ==
    /\ pc = "except"
    /\ variant = "deepseek"
    /\ exc' = "none"
    /\ result' = ErrorAnswer
    /\ pc' = "finally"
    /\ UNCHANGED <<deepseekFrame, fsVars, generated_code, generated_tests, attempt,
                   test_passed, test_output, count, exit_statuses, service_failed>>

\* finally: self.project_manager.cleanup(); return final_answer
Deepseek_finally ==
    /\ pc = "finally"
    /\ variant = "deepseek"
    /\ cleanup
    /\ pc' = "returned"
    /\ UNCHANGED <<deepseekFrame, exc, out_files, generated_code, generated_tests, attempt,
                   test_passed, test_output, result, count, exit_statuses, service_failed>>

NextDeepseek ==
    \/ Deepseek_create_project
    \/ Deepseek_generate_code
    \/ Deepseek_loop
    \/ Deepseek_generate_unit_tests
    \/ Deepseek_run_tests
    \/ Deepseek_copy
    \/ Deepseek_report
    \/ Deepseek_except
    \/ Deepseek_finally

SpecDeepseek == InitDeepseek /\ [][NextDeepseek]_vars

----------------------------------------------------------------------------
(* ConversationManager.add_turn_to_history: SQLite and the vector store *)

\* bound on the add_turn_to_history calls
MaxTurns == 3

ConversationIds == {1, 2}

\* cursor.lastrowid after an INSERT into messages (id INTEGER PRIMARY KEY): one
\* more than the largest rowid in the table, rows of the open transaction included
lastrowid(rows) == Len(rows) + 1

\* self.vector_store.add_texts(texts=..., metadatas=..., ids=[chroma_id]): the
\* entry replaces an entry with the same id. The vector store is not part of the
\* SQLite transaction
add_texts(store, chroma_id, n) ==
    {e \in store : e.id # chroma_id} \cup {[id |-> chroma_id, n |-> n]}

InitTurns ==
    /\ variant = "none"
    /\ test_plan = "None"
    /\ MAX_DEBUG_ATTEMPTS = CONFIGURED_DEBUG_ATTEMPTS
    /\ MAX_TEST_REGEN_ATTEMPTS = CONFIGURED_TEST_REGEN_ATTEMPTS
    /\ OrchestratorIdle("turns")
    /\ TwinIdle
    /\ DbIdle
    /\ ChatIdle
    /\ TestedIdle
    /\ messages_table = << >>
    /\ vector_store = {}
    /\ turn = NoCall

turnFrame == <<cfgVars, test_plan, pc, exc, fsVars, loopVars, result, count, histVars,
               convVars, clsVars, pmVars, concVars, twinVars, dbVars, chatVars,
               testedVars>>

\* an exception raised inside the try block
TurnFails == [turn EXCEPT !.pc = "except"]

\* add_turn_to_history(conversation_id, user_content, assistant_content) is called
Turn_call ==
    /\ pc = "turns"
    /\ turn.pc \in {"idle", "returned"}
    /\ turn.n < MaxTurns
    /\ \E c \in ConversationIds :
         turn' = [NoCall EXCEPT !.pc = "insert_user", !.n = turn.n + 1,
                                !.conversation_id = c]
    /\ UNCHANGED <<messages_table, vector_store, turnFrame>>

\* INSERT INTO messages ... 'user'; user_message_id = cursor.lastrowid
Turn_insert_user ==
    /\ pc = "turns"
    /\ turn.pc = "insert_user"
    /\ \E o \in {"ok", "raise"} :
         turn' = IF o = "raise" THEN TurnFails
                 ELSE LET id == lastrowid(messages_table \o turn.pending)
                      IN  [turn EXCEPT !.pc = "insert_assistant",
                                       !.user_message_id = id,
                                       !.pending = Append(@, [id |-> id, role |-> "user",
                                                              n |-> turn.n])]
    /\ UNCHANGED <<messages_table, vector_store, turnFrame>>

\* INSERT INTO messages ... 'assistant'; assistant_message_id = cursor.lastrowid
Turn_insert_assistant ==
    /\ pc = "turns"
    /\ turn.pc = "insert_assistant"
    /\ \E o \in {"ok", "raise"} :
         turn' = IF o = "raise" THEN TurnFails
                 ELSE LET id == lastrowid(messages_table \o turn.pending)
                      IN  [turn EXCEPT !.pc = "add_texts",
                                       !.assistant_message_id = id,
                                       !.pending = Append(@, [id |-> id,
                                                              role |-> "assistant",
                                                              n |-> turn.n])]
    /\ UNCHANGED <<messages_table, vector_store, turnFrame>>

\* chroma_id = f"turn_{user_message_id}_{assistant_message_id}";
\* self.vector_store.add_texts(...)
Turn_add_texts ==
    /\ pc = "turns"
    /\ turn.pc = "add_texts"
    /\ \E o \in {"ok", "raise"} :
         IF o = "raise"
         THEN /\ turn' = TurnFails
              /\ UNCHANGED vector_store
         ELSE /\ vector_store' =
                   add_texts(vector_store,
                             <<turn.user_message_id, turn.assistant_message_id>>, turn.n)
              /\ turn' = [turn EXCEPT !.pc = "commit"]
    /\ UNCHANGED <<messages_table, turnFrame>>

\* self.db_conn.commit()
Turn_commit ==
    /\ pc = "turns"
    /\ turn.pc = "commit"
    /\ \E o \in {"ok", "raise"} :
         IF o = "raise"
         THEN /\ turn' = TurnFails
              /\ UNCHANGED messages_table
         ELSE /\ messages_table' = messages_table \o turn.pending
              /\ turn' = [turn EXCEPT !.pc = "returned", !.pending = << >>]
    /\ UNCHANGED <<vector_store, turnFrame>>

\* except Exception as e: print(...); self.db_conn.rollback()
Turn_except ==
    /\ pc = "turns"
    /\ turn.pc = "except"
    /\ turn' = [turn EXCEPT !.pc = "returned", !.pending = << >>]
    /\ UNCHANGED <<messages_table, vector_store, turnFrame>>

NextTurns ==
    \/ Turn_call
    \/ Turn_insert_user
    \/ Turn_insert_assistant
    \/ Turn_add_texts
    \/ Turn_commit
    \/ Turn_except

SpecTurns == InitTurns /\ [][NextTurns]_vars

----------------------------------------------------------------------------
(* Properties *)

\* the counters of the calls made inside the loop
LoopCalls(c) == <<c.gen_code, c.gen_tests, c.exec, c.analyze, c.debug, c.regen>>

\* C1: once the run has returned or thrown, on whatever exit path, the sandbox
\* directory does not exist and create_project was called exactly once.
C1_Teardown ==
    Done => (~dir_exists /\ count.create = 1)

\* a run interrupted in a blocking call after tests had failed, torn down
C1_Witness ==
    /\ pc = "thrown"
    /\ exc = "KeyboardInterrupt"
    /\ count.exec >= 1
    /\ count.create = 1
    /\ ~dir_exists

\* C2: after an execution with exit status 0 no generation, execution,
\* classification or repair call is made; a run whose first execution returns 0
\* has made one code generation, one test generation and one execution and
\* ends as passed.
C2_EarlyStop ==
    /\ [][test_passed => LoopCalls(count') = LoopCalls(count)]_vars
    /\ [](Done /\ Len(exit_statuses) >= 1 /\ exit_statuses[1] = 0
            => /\ count.gen_code = 1
               /\ count.gen_tests = 1
               /\ count.exec = 1
               /\ count.analyze = 0
               /\ count.debug = 0
               /\ test_passed
               /\ (pc = "returned" /\ result.status # "error"
                      => result.status = "success"))

\* a run that passed on its first execution and reported success
C2_Witness ==
    /\ pc = "returned"
    /\ exit_statuses = <<0>>
    /\ result.status = "success"
    /\ count.gen_tests = 1

\* C4: the repairs made never exceed MAX_DEBUG_ATTEMPTS and the continuations
\* on a test_bug classification never exceed MAX_TEST_REGEN_ATTEMPTS.
C4_Budget ==
    /\ count.debug <= MAX_DEBUG_ATTEMPTS
    /\ count.regen <= MAX_TEST_REGEN_ATTEMPTS

\* with the configured limits, a run that used up its whole repair budget
C4_Witness ==
    /\ MAX_DEBUG_ATTEMPTS = CONFIGURED_DEBUG_ATTEMPTS
    /\ MAX_TEST_REGEN_ATTEMPTS = CONFIGURED_TEST_REGEN_ATTEMPTS
    /\ count.debug = MAX_DEBUG_ATTEMPTS
    /\ Done

\* C5: the test executions of a run are at most
\* MAX_DEBUG_ATTEMPTS + MAX_TEST_REGEN_ATTEMPTS + 1.
C5_AttemptBound ==
    count.exec <= MAX_DEBUG_ATTEMPTS + MAX_TEST_REGEN_ATTEMPTS + 1

\* a run that failed in every iteration the loop has
C5_Witness ==
    /\ Done
    /\ count.exec = MAX_DEBUG_ATTEMPTS + MAX_TEST_REGEN_ATTEMPTS
    /\ ~test_passed

\* C9: once a failure is classified cannot_determine, no repair, no test
\* regeneration and no further execution happens in the run.
C9_InconclusiveStops ==
    [][analysis_result = LABEL_cannot_determine
          => LoopCalls(count') = LoopCalls(count)]_vars

\* the first failure classified cannot_determine with the whole budget left
C9_Witness ==
    /\ pc = "returned"
    /\ classifications = <<LABEL_cannot_determine>>
    /\ MAX_DEBUG_ATTEMPTS = CONFIGURED_DEBUG_ATTEMPTS
    /\ count.exec = 1
    /\ ~service_failed

\* C3: counter independence. A failure classified code_bug is followed by a
\* repair whenever fewer than MAX_DEBUG_ATTEMPTS repairs were made so far, and a
\* failure classified test_bug by a test regeneration whenever fewer than
\* MAX_TEST_REGEN_ATTEMPTS regenerations were made so far, whatever the other
\* branch has consumed.
C3_CounterIndependence ==
    [][pc = "branch"
          => /\ (analysis_result = LABEL_code_bug /\ count.debug < MAX_DEBUG_ATTEMPTS
                    => pc' = "debug")
             /\ (analysis_result = LABEL_test_bug /\ count.regen < MAX_TEST_REGEN_ATTEMPTS
                    => pc' = "loop" /\ count'.regen = count.regen + 1)]_vars

\* no file of the sandbox holds the error text of the generation adapter
NoErrorInSandbox(fs) == \A f \in FileNames : fs[f].kind # "error"

\* C6: a failure of the generation service is fatal to the run and reported as
\* its own terminal condition: the error text is never written into the sandbox
\* as code or tests, and no execution, classification or repair follows it.
C6_GenerationUnavailableFatal ==
    [][/\ NoErrorInSandbox(files')
       /\ (service_failed
              => <<count'.exec, count'.analyze, count'.debug>>
                   = <<count.exec, count.analyze, count.debug>>)
       /\ (service_failed' /\ Done' => result'.status = "generation_unavailable")]_vars

\* C7: a run in refactor or debug mode without seed code ends with a
\* precondition error before a sandbox is created and before any generation
\* call; it never proceeds as a plain generate run.
C7_SeedPrecondition ==
    (mode \in {"refactor", "debug"} /\ initial_code = "None")
        => /\ count.create = 0
           /\ count.calls = 0
           /\ gen_mode = "none"
           /\ (Done => result.status = "precondition_error")

\* a classifier call has returned
Classified == pc = "classified"

\* C8: every classifier returns code_bug or test_bug only when the reply is
\* that label, and cannot_determine for every other reply.
C8_ClassifierNormalises ==
    Classified
        => LET reply == Lower(Strip(cls_response))
           IN  cls_result = IF reply \in {LABEL_code_bug, LABEL_test_bug}
                            THEN reply ELSE LABEL_cannot_determine

\* C10: the outcome of a run that did not pass names why it stopped; a stop on
\* cannot_determine is reported neither as a code-budget nor as a test-flaw
\* outcome.
C10_OutcomeNamesCause ==
    (pc = "returned" /\ result.status = "failure" /\ variant \in {"qwen3coder", "phi4"})
        => /\ (analysis_result = LABEL_code_bug
                  => result.message = "unable_to_fix_code_bug")
           /\ (analysis_result = LABEL_test_bug
                  => result.message = "flaw_in_generated_tests")
           /\ (analysis_result = LABEL_cannot_determine
                  => result.message \notin {"unable_to_fix_code_bug",
                                            "flaw_in_generated_tests"})

\* every execution so far failed and every failure was classified code_bug
AllCodeBug ==
    /\ \A i \in DOMAIN exit_statuses : exit_statuses[i] # 0
    /\ Len(classifications) = Len(exit_statuses)
    /\ \A i \in DOMAIN classifications : classifications[i] = LABEL_code_bug

\* the message of the outcome that names the exhausted code-repair budget
CodeBudgetExhausted ==
    /\ result.status = "failure"
    /\ result.message = IF variant = "gptoss" THEN "Analysis: code_bug"
                        ELSE "unable_to_fix_code_bug"

\* C11: with limits c >= 1 and t >= 1, a run in which every test execution fails
\* and every classification is code_bug performs exactly c repairs and c + 1
\* executions and then stops with the code-budget-exhausted outcome.
C11_AllCodeBug ==
    (result.status = "failure" /\ AllCodeBug)
        => /\ count.debug = MAX_DEBUG_ATTEMPTS
           /\ count.exec = MAX_DEBUG_ATTEMPTS + 1
           /\ count.regen = 0
           /\ CodeBudgetExhausted

C11_Witness ==
    /\ pc = "returned"
    /\ MAX_DEBUG_ATTEMPTS = 2
    /\ MAX_TEST_REGEN_ATTEMPTS = 1
    /\ AllCodeBug
    /\ count.debug = 2
    /\ count.exec = 3
    /\ CodeBudgetExhausted

\* C12: with limits (1, 1), a first failure classified test_bug and a second
\* failure classified code_bug, the run performs one regeneration and one repair
\* and stops only after the third execution.
C12_ScenarioC ==
    (/\ pc = "returned"
     /\ result.status = "failure"
     /\ MAX_DEBUG_ATTEMPTS = 1
     /\ MAX_TEST_REGEN_ATTEMPTS = 1
     /\ Len(classifications) >= 2
     /\ classifications[1] = LABEL_test_bug
     /\ classifications[2] = LABEL_code_bug
     /\ \A i \in DOMAIN exit_statuses : exit_statuses[i] # 0)
        => /\ count.regen = 1
           /\ count.debug = 1
           /\ count.exec = 3

\* the output of an execution that ran into the time limit
IsTimeout(t) ==
    /\ "err" \in DOMAIN t
    /\ t.err \in {"Error: Command timed out.", "Command error: timed out"}

\* C13: a timeout of the executed command is returned by run_command as a normal
\* failure result (empty stdout, descriptive stderr, non-zero status) and never
\* raised; the loop passes it to the classifier and continues or stops according
\* to the classification.
C13_TimeoutIsFailure ==
    [][/\ (pc = "run_tests" => exc' # "Exception")
       /\ (pc = "run_tests" /\ Len(exit_statuses') > Len(exit_statuses)
               /\ IsTimeout(test_output'))
            => /\ exit_statuses'[Len(exit_statuses')] # 0
               /\ test_output'.out = ""
               /\ ~test_passed'
               /\ pc' = "analyze"
       /\ (pc = "analyze" /\ IsTimeout(test_output))
            => count'.analyze = count.analyze + 1
       /\ (pc = "branch" /\ IsTimeout(test_output))
            => /\ pc' \in {"debug", "loop", "copy"}
               /\ pc' = "debug" => analysis_result = LABEL_code_bug
               /\ pc' = "loop" => analysis_result = LABEL_test_bug
               /\ analysis_result = LABEL_cannot_determine => pc' = "copy"
      ]_vars

C13_Witness ==
    /\ pc = "debug"
    /\ IsTimeout(test_output)
    /\ exit_statuses[Len(exit_statuses)] = 1
    /\ count.analyze = count.exec
    /\ exc = "none"

\* a direct call of the ProjectManager has just returned or raised
Called(name) ==
    /\ Len(pm_trace') = Len(pm_trace) + 1
    /\ pm_trace'[Len(pm_trace')] = name

LastCall == IF pm_trace = << >> THEN "none" ELSE pm_trace[Len(pm_trace)]

\* C14: create_project always leaves a fresh, empty sandbox directory: a directory
\* found at the path (from an earlier create_project without cleanup, or from an
\* earlier use) is removed first and none of its files is visible afterwards.
C14_FreshDirectory ==
    [][Called("create_project")
         => /\ pm_ret'.status = "ok"
            /\ dir_exists'
            /\ current_dir' # "None"
            /\ \A f \in FileNames : files'[f] = NoFile
      ]_vars

C14_Witness ==
    /\ Len(pm_trace) = 3
    /\ pm_trace = <<"create_project", "write_file", "create_project">>
    /\ dir_exists
    /\ files = EmptyDir

\* C15: before create_project has been called, write_file fails with a
\* RuntimeError and writes nothing, and so do run_command and read_file.
C15_NeedsProject ==
    [][((\E name \in {"write_file", "run_command", "read_file"} : Called(name))
          /\ \A i \in DOMAIN pm_trace : pm_trace[i] # "create_project")
         => /\ pm_ret'.status = "RuntimeError"
            /\ UNCHANGED <<dir_exists, current_dir, files>>
      ]_vars

C15_Witness ==
    /\ pm_trace = <<"write_file">>
    /\ pm_ret.status = "RuntimeError"
    /\ dir_exists
    /\ files = StaleDir

\* C16: cleanup is idempotent and safe in any state (before create_project, after
\* it, after an earlier cleanup): it succeeds, leaves no directory, and a second
\* call changes nothing.
C16_CleanupIdempotent ==
    [][Called("cleanup")
         => /\ pm_ret'.status = "ok"
            /\ ~dir_exists'
            /\ current_dir' = "None"
            /\ \A f \in FileNames : files'[f] = NoFile
            /\ LastCall = "cleanup" => UNCHANGED <<dir_exists, current_dir, files>>
      ]_vars

C16_Witness ==
    /\ pm_trace = <<"create_project", "write_file", "cleanup", "cleanup">>
    /\ ~dir_exists
    /\ current_dir = "None"

\* C17: every run that does not end as passed (budget exhausted, inconclusive
\* classification, or an exception raised after code had been generated) returns
\* a result that contains the last generated code and the last test output, never
\* a bare error.
C17_FailureCarriesArtifacts ==
    (Done /\ ~test_passed /\ generated_code # Unset)
        => /\ pc = "returned"
           /\ result.code = generated_code
           /\ result.output = test_output

\* run r is between its create_project and its cleanup
InSandbox(r) == runs[r].pc \in {"write_code", "write_tests", "run_tests", "copy"}

\* C18: two runs executed concurrently each own a distinct sandbox directory;
\* create_project or cleanup of one run never removes, replaces or exposes the
\* files of the other.
C18_RunsIsolated ==
    \A r \in Runs :
       InSandbox(r)
         => /\ \A o \in Runs \ {r} : InSandbox(o) => runs[o].current_dir # runs[r].current_dir
            /\ disk[runs[r].current_dir].exists
            /\ \A f \in {"code_file", "test_file"} :
                  /\ disk[runs[r].current_dir].files[f] \in {0, r}
                  /\ runs[r].executed[f] \in {0, r}
            /\ runs[r].pc \in {"write_tests", "run_tests", "copy"}
                  => disk[runs[r].current_dir].files["code_file"] = r

\* C19: exit status 0 is the sole success signal in every orchestrator variant:
\* a run reports that the tests passed exactly when the last execution returned
\* status 0.
C19_ExitStatusDecides ==
    (pc = "returned" /\ exit_statuses # << >> /\ result.status \in {"success", "failure"})
        => (result.status = "success" <=> exit_statuses[Len(exit_statuses)] = 0)

\* C20: provided every generation call and every sandboxed command returns, every
\* run reaches a terminal state after finitely many steps, for every sequence of
\* exit statuses and classifications (alternating code_bug and test_bug
\* included), and has then torn its sandbox down.
C20_Terminates == <>(Done /\ ~dir_exists /\ current_dir = "None")

C20_Witness ==
    /\ Done
    /\ ~dir_exists
    /\ Len(classifications) >= 3
    /\ classifications[1] = LABEL_code_bug
    /\ classifications[2] = LABEL_test_bug
    /\ classifications[3] = LABEL_code_bug
    /\ count.debug >= 1
    /\ count.regen >= 1

\* what a run shows to its caller: the calls it made, in order, and how it ended
Observed(s) ==
    [pc |-> s.pc, calls |-> s.calls, code |-> s.code, tests |-> s.tests,
     passed |-> s.passed, analysis |-> s.analysis, result |-> s.result,
     saved |-> IF s.pc = "returned" THEN s.out ELSE CleanEnvironment.out]

\* C21: two runs given the same inputs and the same responses in the same order
\* make the same sequence of calls and end with the same result (final code,
\* tests, pass / fail); what an earlier run left behind (a stale sandbox
\* directory, files in the output directory) does not influence the later one.
C21_Deterministic == Observed(twin[1]) = Observed(twin[2])

C21_Witness ==
    /\ twin[1].pc = "returned"
    /\ twin[2].pc = "returned"
    /\ twin[1].result.status = "failure"
    /\ twin[2].result = twin[1].result
    /\ Len(twin[1].calls) >= 10
    /\ twin[2].calls = twin[1].calls
    /\ twin[2].out = twin[1].out
    /\ twin[1].out["code_file"] = twin[1].code

\* the rowids saved under file_name, the most recently saved first
ByRecency(table, file_name) ==
    LET ids == Matching(table, file_name)
        n == Cardinality(ids)
    IN  CHOOSE q \in [1..n -> ids] : \A i, j \in 1..n : i < j => q[i] > q[j]

\* C22: after any sequence of saves, get_code_solution(file_name) returns the most
\* recently saved success with that file_name (None when there is none) and
\* get_failed_attempts(file_name) returns exactly the failures saved under that
\* file_name, most recent first; rows of another file_name are never returned.
C22_ReadsByRecency ==
    [][db_read' # db_read
         => LET f == db_read'.file_name
            IN  /\ db_read'.op = "get_code_solution"
                     => db_read'.rows =
                           (IF Matching(code_solutions, f) = {} THEN << >>
                            ELSE <<ByRecency(code_solutions, f)[1]>>)
                /\ db_read'.op = "get_failed_attempts"
                     => db_read'.rows = ByRecency(code_failures, f)
      ]_vars

\* C23: in gpt-oss:latest.py's CodingAgentV2.run a passing run records exactly one
\* success entry and returns the success result; a run that does not pass records
\* exactly one failure entry; no run records both or neither.
C23_OneRecordPerRun ==
    Done /\ variant = "gptoss"
      => IF test_passed
         THEN solutions = 1 /\ failures = 0 /\ result.status = "success"
         ELSE solutions = 0 /\ failures = 1 /\ result.status = "failure"

\* `stdout` is bound by every run_command that returns, `failure_output` (gpt-oss)
\* only in the else branch of `if rc == 0`
stdout_assigned == exit_statuses # << >>
failure_output_assigned == \E i \in DOMAIN exit_statuses : exit_statuses[i] # 0

Conversation(n) ==
    [k \in 1..(2 * n - 1) |->
        IF k % 2 = 1 THEN UserMessage((k + 1) \div 2, {}) ELSE AssistantMessage(k \div 2)]

\* C25: in gemma3-manual-fix.py's Chat mode the message list of the n-th request
\* of a session contains every user prompt and assistant reply of the previous
\* n - 1 requests, followed by the new prompt.
C25_ContextAccumulates ==
    variant = "gemma3"
      => \A i \in DOMAIN sent :
            (/\ \A k \in 1..i : sent[k].kind = "post"
             /\ \A k \in 1..(i - 1) : sent[k].replied)
               => sent[i].messages = Conversation(i)

\* C26: in gpt-oss.py, after reset_conversation chat_history and attached_files are
\* empty, and the next Chat submit sends a message list that holds only the new
\* user prompt, whatever was submitted before the reset.
C26_ResetStartsAfresh ==
    variant = "gptoss_ui"
      => \A i \in DOMAIN sent :
            (i > 1 /\ sent[i].kind = "post" /\ sent[i - 1].kind = "reset")
               => /\ Len(sent[i].messages) = 1
                  /\ sent[i].messages[1].role = "user"

\* positions inside the loop at which no repair is half done
InLoop == {"loop", "gen_tests", "write_tests", "run_tests", "analyze", "branch", "debug"}

\* C27: when a failed execution is classified code_bug and a repair is made, the
\* repaired code replaces the current code and is written to the sandbox code
\* file, and the next iteration generates its tests from the repaired code (not
\* from the previous code) before it executes them.
C27_RepairTakesEffect ==
    /\ (pc = "write_fix" /\ exc = "none") => generated_code = tested.repaired
    /\ (count.debug >= 1 /\ pc \in InLoop /\ classifications # << >>
          /\ classifications[Len(classifications)] = LABEL_code_bug
          /\ Len(classifications) = count.debug + count.regen)
         => /\ generated_code = tested.repaired
            /\ files["code_file"] = tested.repaired
            /\ pc \in {"write_tests", "run_tests"} => tested.tests_from = tested.repaired
            /\ pc = "analyze" => tested.executed = tested.repaired

\* the tests of the iteration after a repair are about to run
C27_Witness ==
    /\ pc = "run_tests"
    /\ count.debug = 1
    /\ count.exec = 1
    /\ tested.repaired.kind = "text"
    /\ tested.repaired # tested.executed
    /\ tested.tests_from = tested.repaired
    /\ files["code_file"] = tested.repaired

\* a failure was classified test_bug within the regeneration budget and the run is
\* between that decision and the next execution
AfterTestBug ==
    /\ analysis_result = LABEL_test_bug
    /\ count.analyze >= 1
    /\ exc = "none"
    /\ \/ pc = "branch" /\ attempt < MAX_TEST_REGEN_ATTEMPTS
       \/ pc \in {"loop", "gen_tests", "write_tests", "run_tests"}

\* C28: when a failed execution is classified test_bug and the loop continues, the
\* current code and the sandbox code file are left unchanged and no repair call
\* is made; the next iteration only generates a new test file and executes it
\* against the same code.
C28_TestBugFrame ==
    [][AfterTestBug
         => /\ generated_code' = generated_code
            /\ count'.debug = count.debug
            /\ pc' # "except" => /\ files'["code_file"] = files["code_file"]
                                 /\ files'["code_file"] = tested.executed
            /\ pc = "branch" => pc' = "loop"
            /\ pc = "loop" => pc' = "gen_tests"
            /\ (pc = "gen_tests" /\ pc' = "write_tests") => tested'.tests_from = tested.executed
            /\ (pc = "run_tests" /\ pc' # "except") => tested'.executed = tested.executed
      ]_vars

\* the second execution, after a regeneration, has run against the code of the first
C28_Witness ==
    /\ pc = "analyze"
    /\ count.regen = 1
    /\ count.debug = 0
    /\ count.exec = 2
    /\ tested.executed = generated_code
    /\ tested.tests_from = generated_code

\* C30: for limits >= 1, in every run that ends without an exception the code
\* copied to the output directory and returned is exactly the code against which
\* the last test execution of the run was performed; the loop never ends right
\* after a repair.
C30_FinalCodeIsTested ==
    /\ pc \in {"save_success", "copy"}
         => generated_code = tested.executed /\ files["code_file"] = tested.executed
    /\ pc = "report" => out_files["code_file"] = tested.executed
    /\ (pc \in {"finally", "returned"} /\ result.status \in {"success", "failure"})
         => /\ out_files["code_file"] = tested.executed
            /\ result.code = tested.executed

\* a run that repaired its code and then used up its budget has returned
C30_Witness ==
    /\ pc = "returned"
    /\ result.status = "failure"
    /\ count.debug >= 1
    /\ tested.executed = tested.repaired
    /\ out_files["code_file"] = tested.repaired
    /\ result.code = tested.repaired

\* executions that ended with a non-zero exit status
FailedExecutions == {i \in DOMAIN exit_statuses : exit_statuses[i] # 0}

\* classifications that call for a repair: code_bug, reached with an index below
\* the repair limit
RepairsDue ==
    {i \in DOMAIN classifications :
        classifications[i] = LABEL_code_bug /\ i - 1 < MAX_DEBUG_ATTEMPTS}

\* C29: in the deepseek-r1 variant every execution with a non-zero exit status is
\* followed by a failure classification, and a code_bug classification within the
\* budget is followed by a repair before the next test generation.
C29_FailuresAreHandled ==
    pc \in {"gen_tests", "copy", "report"}
      => /\ count.analyze = Cardinality(FailedExecutions)
         /\ Len(classifications) = count.analyze
         /\ count.debug = Cardinality(RepairsDue)

\* max(MAX_DEBUG_ATTEMPTS, MAX_TEST_REGEN_ATTEMPTS)
LargerLimit ==
    IF MAX_DEBUG_ATTEMPTS >= MAX_TEST_REGEN_ATTEMPTS
    THEN MAX_DEBUG_ATTEMPTS ELSE MAX_TEST_REGEN_ATTEMPTS

\* C31 as stated: a run performs at most max(MAX_DEBUG_ATTEMPTS,
\* MAX_TEST_REGEN_ATTEMPTS) + 1 test executions, and the last iteration of
\* range(MAX_DEBUG_ATTEMPTS + MAX_TEST_REGEN_ATTEMPTS) is never reached when both
\* limits are >= 1.
C31_LastIterationUnreached ==
    /\ count.exec <= LargerLimit + 1
    /\ (MAX_DEBUG_ATTEMPTS >= 1 /\ MAX_TEST_REGEN_ATTEMPTS >= 1)
         => attempt < LoopRange - 1

\* C31 amended: a run performs at most max(MAX_DEBUG_ATTEMPTS,
\* MAX_TEST_REGEN_ATTEMPTS) + 1 test executions (4 with the configured 3 and 2),
\* the loop index never exceeds the larger limit, and the last iteration of the
\* range is never reached when both limits are >= 2.
C31_TightBound ==
    /\ count.exec <= LargerLimit + 1
    /\ attempt <= LargerLimit
    /\ (MAX_DEBUG_ATTEMPTS >= 2 /\ MAX_TEST_REGEN_ATTEMPTS >= 2)
         => attempt < LoopRange - 1
    /\ (MAX_DEBUG_ATTEMPTS = CONFIGURED_DEBUG_ATTEMPTS
          /\ MAX_TEST_REGEN_ATTEMPTS = CONFIGURED_TEST_REGEN_ATTEMPTS)
         => count.exec <= 4

\* the configured limits, four failed executions, the loop left by the else branch
C31_Witness ==
    /\ MAX_DEBUG_ATTEMPTS = CONFIGURED_DEBUG_ATTEMPTS
    /\ MAX_TEST_REGEN_ATTEMPTS = CONFIGURED_TEST_REGEN_ATTEMPTS
    /\ pc = "copy"
    /\ ~test_passed
    /\ count.exec = LargerLimit + 1
    /\ attempt = LargerLimit
    /\ attempt < LoopRange - 1

\* C32: at every test execution the code file in the sandbox holds exactly the
\* current in-memory code and the test file holds exactly the tests generated in
\* the same iteration from that code; no execution runs tests that were generated
\* from an earlier code version.
C32_SandboxTracksLoop ==
    pc = "run_tests"
      => /\ files["code_file"] = generated_code
         /\ files["test_file"] = generated_tests
         /\ tested.tests_from = generated_code
         /\ count.gen_tests = attempt + 1
         /\ count.exec = attempt

\* the third execution of a run that has repaired its code once and regenerated
\* its tests once is about to start
C32_Witness ==
    /\ pc = "run_tests"
    /\ count.debug = 1
    /\ count.regen = 1
    /\ files["code_file"] = tested.repaired
    /\ files["test_file"] = generated_tests
    /\ tested.tests_from = tested.repaired

\* the calls made so far include a create_project with no cleanup after it
ProjectOpen ==
    \E i \in DOMAIN pm_trace :
        /\ pm_trace[i] = "create_project"
        /\ \A j \in DOMAIN pm_trace : j > i => pm_trace[j] # "cleanup"

\* C33 as stated: after any sequence of create_project, write_file, read_file,
\* run_command and cleanup calls on a single ProjectManager, current_dir is set
\* if and only if the sandbox directory exists.
C33_HandleIffDirectory ==
    (pc = "project_manager" /\ pm_trace # << >>)
        => (current_dir # "None" <=> dir_exists)

\* C33 amended: after any sequence of calls, current_dir is set exactly between a
\* create_project and the next cleanup, and then the sandbox directory exists;
\* the directory exists with current_dir unset only when it was left by an
\* earlier use and neither create_project nor cleanup has been called yet.
\* write_file and run_command succeed exactly between a create_project and the
\* next cleanup and raise the not-initialised error otherwise.
C33_HandleTracksDirectory ==
    pc = "project_manager"
      => /\ current_dir # "None" <=> ProjectOpen
         /\ current_dir # "None" => dir_exists
         /\ (\E i \in DOMAIN pm_trace : pm_trace[i] \in {"create_project", "cleanup"})
              => (dir_exists => current_dir # "None")
         /\ LastCall \in {"write_file", "run_command"}
              => pm_ret.status = (IF ProjectOpen THEN "ok" ELSE "RuntimeError")

\* a write attempted after the cleanup that followed a create_project
C33_Witness ==
    /\ pm_trace = <<"create_project", "write_file", "cleanup", "write_file">>
    /\ pm_ret.status = "RuntimeError"
    /\ ~dir_exists
    /\ current_dir = "None"

\* what is stored of the turn added by the n-th call
UserStored(n) ==
    \E i \in DOMAIN messages_table :
        messages_table[i].role = "user" /\ messages_table[i].n = n
AssistantStored(n) ==
    \E i \in DOMAIN messages_table :
        messages_table[i].role = "assistant" /\ messages_table[i].n = n
VectorStored(n) == \E e \in vector_store : e.n = n

\* C34: add_turn_to_history is all-or-nothing across both stores: after the call
\* either the user message, the assistant message and the vector-store entry of
\* the turn are all stored or none of them is; a failure at any step leaves
\* SQLite and the vector store as they were before the call.
C34_AllOrNothing ==
    turn.pc = "returned"
      => \/ UserStored(turn.n) /\ AssistantStored(turn.n) /\ VectorStored(turn.n)
         \/ ~UserStored(turn.n) /\ ~AssistantStored(turn.n) /\ ~VectorStored(turn.n)

\* C36: in gemma3-manual-fix.py at most one ApiWorker is running at a time after
\* any sequence of Submit clicks, so that a running worker is never replaced by a
\* new one before it finishes.
C36_OneWorker ==
    variant = "gemma3" => Len(request) <= 1

\* user, assistant, user, assistant, ...
Alternates(history) ==
    \A i \in DOMAIN history :
        history[i].role = (IF i % 2 = 1 THEN "user" ELSE "assistant")

\* C35: in the qwen2-5-coder.py and gpt-oss.py front ends, after any sequence of
\* Chat submits (successful or failing with an API error) and resets,
\* chat_history is a strictly alternating sequence user, assistant, ...; a request
\* that fails leaves no unanswered user message in the history that is sent with
\* the next request.
C35_HistoryAlternates ==
    variant \in {"qwen25_ui", "gptoss_ui"}
      => /\ request = << >> => Alternates(chat_history) /\ Len(chat_history) % 2 = 0
         /\ \A i \in Posted :
               Alternates(sent[i].messages) /\ Len(sent[i].messages) % 2 = 1

====
